---- MODULE Spec2Model ----
(***************************************************************************)
(* A model of tssrp6a: the SRP-6a handshake (client and server sessions),  *)
(* verifier creation, and the post-handshake encryption layer.             *)
(*                                                                         *)
(* Byte strings (ArrayBuffer / Uint8Array) are sequences over 0..255.      *)
(* JavaScript strings are sequences of UTF-16 code units.  null/undefined  *)
(* is NullInt for a bigint and NullSeq for a string or a buffer.           *)
(***************************************************************************)
EXTENDS Integers, Sequences, FiniteSets, TLC

NullInt == 0 - 1
NullSeq == << 0 - 1 >>

(***************************************************************************)
(* Bytes and bits.                                                         *)
(***************************************************************************)
Byte == 0 .. 255

RECURSIVE XorBits(_, _, _)
XorBits(a, b, n) ==
  IF n = 0 THEN 0
  ELSE (((a % 2) + (b % 2)) % 2) + 2 * XorBits(a \div 2, b \div 2, n - 1)

\* The ^ operator on two Uint8Array elements, tabulated.
XorTable == [a \in Byte |-> [b \in Byte |-> XorBits(a, b, 8)]]
Xor(a, b) == XorTable[a][b]

\* 2^k for a bit index k.
RECURSIVE Pow2(_)
Pow2(k) == IF k = 0 THEN 1 ELSE 2 * Pow2(k - 1)

\* The sequence bytes with bit `bit` of its byte at index pos flipped.
FlipBit(bytes, pos, bit) ==
  SubSeq([bytes EXCEPT ![pos] = Xor(bytes[pos], Pow2(bit))], 1, Len(bytes))

(***************************************************************************)
(* utils: bigint <-> bytes.                                                *)
(***************************************************************************)
\* n.toString(16) as a sequence of hex digit values, most significant first.
RECURSIVE ToHex(_)
ToHex(n) == IF n < 16 THEN << n >> ELSE ToHex(n \div 16) \o << n % 16 >>

\* parseInt of a slice of hex digits (the slice is never empty in range).
RECURSIVE ParseHex(_)
ParseHex(digits) ==
  IF digits = << >> THEN 0
  ELSE 16 * ParseHex(SubSeq(digits, 1, Len(digits) - 1)) + digits[Len(digits)]

\* bigIntToArrayBuffer without the step for a hex string of odd length: the
\* digits are taken in pairs from the left.
bigIntToArrayBufferNoOffset(n) ==
  LET hex == ToHex(n)
      byteLength == (Len(hex) + 1) \div 2
      At(i) == ParseHex(SubSeq(hex, 2 * i + 1, IF 2 * i + 2 > Len(hex) THEN Len(hex)
                                               ELSE 2 * i + 2))
  IN  SubSeq([j \in 1 .. byteLength |-> At(j - 1)], 1, byteLength)

bigIntToArrayBuffer(n) ==
  LET hex == ToHex(n)
      byteLength == (Len(hex) + 1) \div 2
      offset == IF Len(hex) % 2 # 0 THEN 1 ELSE 0
      \* u8[j], 0-based; writes past the end of the typed array are dropped
      At(j) == IF offset = 1 /\ j = 0 THEN ParseHex(<< hex[1] >>)
               ELSE LET i == j - offset
                    IN  ParseHex(SubSeq(hex, 2 * i + offset + 1, 2 * i + 2 + offset))
  IN  SubSeq([j \in 1 .. byteLength |-> At(j - 1)], 1, byteLength)

\* 256^k mod m, by squaring.
RECURSIVE PowMod256(_, _)
PowMod256(k, m) ==
  IF k = 0 THEN 1 % m
  ELSE LET r == PowMod256(k \div 2, m)
           sq == (r * r) % m
       IN  IF k % 2 = 1 THEN (sq * 256) % m ELSE sq

\* The big-endian value of bytes[lo..hi] mod m, byte by byte.
RECURSIVE BytesModRun(_, _, _, _)
BytesModRun(bytes, lo, hi, m) ==
  IF lo > hi THEN 0
  ELSE (BytesModRun(bytes, lo, hi - 1, m) * 256 + bytes[hi]) % m

\* The big-endian value of bytes[lo..hi] mod m, long ranges by halves.
RECURSIVE BytesModRange(_, _, _, _)
BytesModRange(bytes, lo, hi, m) ==
  IF hi - lo < 16 THEN BytesModRun(bytes, lo, hi, m)
  ELSE LET mid == (lo + hi) \div 2
       IN  (BytesModRange(bytes, lo, mid, m) * PowMod256(hi - mid, m)
              + BytesModRange(bytes, mid + 1, hi, m)) % m

\* arrayBufferToBigInt(buf) % m: digests are wider than the model's integers,
\* so a digest read as a bigint is carried by a residue.
BytesMod(bytes, m) == BytesModRange(bytes, 1, Len(bytes), m)

\* arrayBufferToBigInt for a buffer whose value fits the model's integers.
RECURSIVE arrayBufferToBigInt(_)
arrayBufferToBigInt(bytes) ==
  IF bytes = << >> THEN 0
  ELSE 256 * arrayBufferToBigInt(SubSeq(bytes, 1, Len(bytes) - 1)) + bytes[Len(bytes)]

\* arrayBufferToBigInt(buf) = 0n
IsZeroBytes(bytes) == \A i \in 1 .. Len(bytes) : bytes[i] = 0

\* padStartArrayBuffer that writes the array at the start of the padded one.
padStartArrayBufferAtStart(bytes, targetLength) ==
  IF Len(bytes) < targetLength
  THEN bytes \o SubSeq([i \in 1 .. targetLength |-> 0], 1, targetLength - Len(bytes))
  ELSE bytes

padStartArrayBuffer(bytes, targetLength) ==
  IF Len(bytes) < targetLength
  THEN SubSeq([i \in 1 .. targetLength |-> 0], 1, targetLength - Len(bytes)) \o bytes
  ELSE bytes

(***************************************************************************)
(* TextEncoder / TextDecoder (UTF-8) over UTF-16 code units.               *)
(***************************************************************************)
IsHighSurrogate(c) == c >= 55296 /\ c <= 56319
IsLowSurrogate(c) == c >= 56320 /\ c <= 57343

EncodeCodePoint(cp) ==
  IF cp < 128 THEN << cp >>
  ELSE IF cp < 2048 THEN << 192 + (cp \div 64), 128 + (cp % 64) >>
  ELSE IF cp < 65536
       THEN << 224 + (cp \div 4096), 128 + ((cp \div 64) % 64), 128 + (cp % 64) >>
  ELSE << 240 + (cp \div 262144), 128 + ((cp \div 4096) % 64),
          128 + ((cp \div 64) % 64), 128 + (cp % 64) >>

\* new TextEncoder().encode(str): an unpaired surrogate becomes U+FFFD.
RECURSIVE Utf8Encode(_)
Utf8Encode(str) ==
  IF str = << >> THEN << >>
  ELSE LET c == str[1]
       IN  IF IsHighSurrogate(c) /\ Len(str) >= 2 /\ IsLowSurrogate(str[2])
           THEN EncodeCodePoint(65536 + (c - 55296) * 1024 + (str[2] - 56320))
                  \o Utf8Encode(SubSeq(str, 3, Len(str)))
           ELSE IF IsHighSurrogate(c) \/ IsLowSurrogate(c)
           THEN EncodeCodePoint(65533) \o Utf8Encode(Tail(str))
           ELSE EncodeCodePoint(c) \o Utf8Encode(Tail(str))

\* A decoded code point as UTF-16 code units.
CodeUnits(cp) ==
  IF cp < 65536 THEN << cp >>
  ELSE << 55296 + ((cp - 65536) \div 1024), 56320 + ((cp - 65536) % 1024) >>

\* The WHATWG UTF-8 decoder: st = [cp, seen, needed, lower, upper].
Utf8Reset == [cp |-> 0, seen |-> 0, needed |-> 0, lower |-> 128, upper |-> 191]

RECURSIVE Utf8Run(_, _, _)
Utf8Run(bytes, i, st) ==
  IF i > Len(bytes)
  THEN IF st.needed # 0 THEN << 65533 >> ELSE << >>
  ELSE LET b == bytes[i]
       IN  IF st.needed = 0
           THEN IF b <= 127 THEN << b >> \o Utf8Run(bytes, i + 1, Utf8Reset)
                ELSE IF b >= 194 /\ b <= 223
                THEN Utf8Run(bytes, i + 1,
                             [Utf8Reset EXCEPT !.needed = 1, !.cp = b % 32])
                ELSE IF b >= 224 /\ b <= 239
                THEN Utf8Run(bytes, i + 1,
                             [Utf8Reset EXCEPT !.needed = 2, !.cp = b % 16,
                                !.lower = IF b = 224 THEN 160 ELSE 128,
                                !.upper = IF b = 237 THEN 159 ELSE 191])
                ELSE IF b >= 240 /\ b <= 244
                THEN Utf8Run(bytes, i + 1,
                             [Utf8Reset EXCEPT !.needed = 3, !.cp = b % 8,
                                !.lower = IF b = 240 THEN 144 ELSE 128,
                                !.upper = IF b = 244 THEN 143 ELSE 191])
                ELSE << 65533 >> \o Utf8Run(bytes, i + 1, Utf8Reset)
           ELSE IF b < st.lower \/ b > st.upper
           THEN << 65533 >> \o Utf8Run(bytes, i, Utf8Reset)
           ELSE LET cp == (st.cp * 64) + (b % 64)
                IN  IF st.seen + 1 = st.needed
                    THEN CodeUnits(cp) \o Utf8Run(bytes, i + 1, Utf8Reset)
                    ELSE Utf8Run(bytes, i + 1,
                                 [st EXCEPT !.cp = cp, !.seen = st.seen + 1,
                                    !.lower = 128, !.upper = 191])

\* new TextDecoder().decode(buf): ignoreBOM is false, a leading BOM is dropped.
Utf8Decode(bytes) ==
  IF Len(bytes) >= 3 /\ SubSeq(bytes, 1, 3) = << 239, 187, 191 >>
  THEN Utf8Run(bytes, 4, Utf8Reset)
  ELSE Utf8Run(bytes, 1, Utf8Reset)

\* stringToArrayBuffer
stringToArrayBuffer(str) == Utf8Encode(str)

(***************************************************************************)
(* Parameters and the hash primitive.                                      *)
(*                                                                         *)
(* The digest function is an external primitive (crossEnvCrypto).  It is   *)
(* modelled by a tree hash over a prime field expanded to the digest       *)
(* length of the selected algorithm: deterministic, of fixed length, and   *)
(* two inputs of equal length that differ in one byte never collide.       *)
(***************************************************************************)
HashAlgs == {"SHA1", "SHA256", "SHA384", "SHA512"}

\* Digest length in bytes of each hash function of crossEnvCrypto.
HashLen(alg) ==
  CASE alg = "SHA1" -> 20
    [] alg = "SHA256" -> 32
    [] alg = "SHA384" -> 48
    [] alg = "SHA512" -> 64

HashSeed(alg) ==
  CASE alg = "SHA1" -> 1
    [] alg = "SHA256" -> 256
    [] alg = "SHA384" -> 384
    [] alg = "SHA512" -> 512

\* The accumulator over data[lo..hi]: a binary tree of mixes mod the prime 32749.
\* Each mix is a bijection in either child, so changing one byte changes the root.
RECURSIVE HashTree(_, _, _)
HashTree(data, lo, hi) ==
  IF lo = hi THEN data[lo] + 1
  ELSE LET mid == (lo + hi) \div 2
       IN  (HashTree(data, lo, mid) * 257 + HashTree(data, mid + 1, hi) * 263 + 1) % 32749

HashAcc(alg, data) ==
  IF Len(data) = 0 THEN HashSeed(alg)
  ELSE (HashSeed(alg) + Len(data) * 31 + HashTree(data, 1, Len(data)) * 131) % 32749

\* The digest bytes spread from the accumulator h.
DigestBytes(alg, h) ==
  SubSeq([i \in 1 .. HashLen(alg) |->
            IF i = 1 THEN h \div 256
            ELSE IF i = 2 THEN h % 256
            ELSE (h * (2 * i + 1) + (h \div 256) * i) % 256],
         1, HashLen(alg))

\* crossEnvCrypto.hashFunctions[alg](data)
Digest(alg, data) ==
  CHOOSE d \in {DigestBytes(alg, h) : h \in {HashAcc(alg, data)}} : TRUE

\* new SRPParameters(): the default group and hash.  The group is the model's
\* stand-in for the RFC 5054 group: a safe prime N = 2q + 1 (q = 16301) and a
\* generator g of the whole multiplicative group.
DefaultParameters == [N |-> 32603, g |-> 2, H |-> "SHA512"]

\* Concatenation of a sequence of buffers.
RECURSIVE Concat(_)
Concat(arrays) ==
  IF arrays = << >> THEN << >> ELSE Head(arrays) \o Concat(Tail(arrays))

\* hash that digests its first array only.
hashOfFirst(parameters, arrays) == Digest(parameters.H, Head(arrays))

\* hash(parameters, ...arrays)
hash(parameters, arrays) == Digest(parameters.H, Concat(arrays))

\* hashPadded(parameters, targetLen, ...arrays)
hashPadded(parameters, targetLen, arrays) ==
  hash(parameters,
       SubSeq([i \in 1 .. Len(arrays) |-> padStartArrayBuffer(arrays[i], targetLen)],
              1, Len(arrays)))

(***************************************************************************)
(* encryption.ts                                                           *)
(***************************************************************************)
IVLen == 16
TagLen == 16

\* UTF-8 bytes of the literals "encryption" and "authentication".
EncryptionLabel == << 101, 110, 99, 114, 121, 112, 116, 105, 111, 110 >>
AuthenticationLabel ==
  << 97, 117, 116, 104, 101, 110, 116, 105, 99, 97, 116, 105, 111, 110 >>

\* deriveKeys with the two labels exchanged.
deriveKeysSwapped(S) ==
  LET params == DefaultParameters
      sBytes == bigIntToArrayBuffer(S)
  IN  [encKey |-> hash(params, << sBytes, AuthenticationLabel >>),
       macKey |-> hash(params, << sBytes, EncryptionLabel >>)]

deriveKeys(S) ==
  LET params == DefaultParameters
      sBytes == bigIntToArrayBuffer(S)
  IN  [encKey |-> hash(params, << sBytes, EncryptionLabel >>),
       macKey |-> hash(params, << sBytes, AuthenticationLabel >>)]

\* arr[i % arr.length] ^ ..., where an index into an empty array reads
\* undefined, which ^ takes as 0.
AtMod(arr, i) == IF Len(arr) = 0 THEN 0 ELSE arr[(i % Len(arr)) + 1]

\* xorCrypt whose keystream starts where the data length points into the key.
xorCryptFromLength(data, key, iv) ==
  LET keyStream == [j \in 1 .. Len(data) |->
                      Xor(AtMod(key, j - 1 + Len(data)), AtMod(iv, j - 1))]
  IN  SubSeq([j \in 1 .. Len(data) |-> Xor(data[j], keyStream[j])], 1, Len(data))

\* xorCrypt that indexes the iv as it indexes the key, iv[i % key.length]; a
\* read past the end of the iv is undefined, which ^ takes as 0.
xorCryptKeyPeriod(data, key, iv) ==
  LET ivAt(i) == IF Len(key) = 0 \/ (i % Len(key)) >= Len(iv) THEN 0
                 ELSE iv[(i % Len(key)) + 1]
      keyStream == [j \in 1 .. Len(data) |-> Xor(AtMod(key, j - 1), ivAt(j - 1))]
  IN  SubSeq([j \in 1 .. Len(data) |-> Xor(data[j], keyStream[j])], 1, Len(data))

xorCrypt(data, key, iv) ==
  LET keyStream == [j \in 1 .. Len(data) |-> Xor(AtMod(key, j - 1), AtMod(iv, j - 1))]
  IN  SubSeq([j \in 1 .. Len(data) |-> Xor(data[j], keyStream[j])], 1, Len(data))

\* The arrays xorCrypt was handed, as they are when it returns: it reads them
\* and writes to its own result and keyStream only.
xorCryptArguments(data, key, iv) == [data |-> data, key |-> key, iv |-> iv]

\* computeMAC that leaves the iv out of the digest.
computeMACWithoutIV(macKey, iv, ciphertext) ==
  hash(DefaultParameters, << macKey, ciphertext >>)

\* computeMAC that digests the ciphertext before the iv.
computeMACCiphertextFirst(macKey, iv, ciphertext) ==
  hash(DefaultParameters, << macKey, ciphertext, iv >>)

computeMAC(macKey, iv, ciphertext) ==
  hash(DefaultParameters, << macKey, iv, ciphertext >>)

\* The bytes of a plaintext argument: data is [type, val], a string or a buffer.
PlaintextBytes(data) ==
  IF data.type = "string" THEN Utf8Encode(data.val) ELSE data.val

\* encrypt that computes the tag over the plaintext in place of the encrypted bytes.
encryptMacOfPlaintext(sessionKey, data, iv) ==
  LET keys == deriveKeys(sessionKey)
      plaintext == PlaintextBytes(data)
      encrypted == xorCrypt(plaintext, keys.encKey, iv)
      mac == computeMAC(keys.macKey, iv, plaintext)
      tag == SubSeq(mac, 1, TagLen)
  IN  [iv |-> iv, ciphertext |-> encrypted \o tag]

\* encrypt that appends the whole digest in place of its first TagLen bytes.
encryptFullMac(sessionKey, data, iv) ==
  LET keys == deriveKeys(sessionKey)
      plaintext == PlaintextBytes(data)
      encrypted == xorCrypt(plaintext, keys.encKey, iv)
      mac == computeMAC(keys.macKey, iv, encrypted)
  IN  [iv |-> iv, ciphertext |-> encrypted \o mac]

\* encrypt(sessionKey, data), with iv the value generateIV() drew.
encrypt(sessionKey, data, iv) ==
  LET keys == deriveKeys(sessionKey)
      plaintext == PlaintextBytes(data)
      encrypted == xorCrypt(plaintext, keys.encKey, iv)
      mac == computeMAC(keys.macKey, iv, encrypted)
      tag == SubSeq(mac, 1, TagLen)
  IN  [iv |-> iv, ciphertext |-> encrypted \o tag]

\* The comparison loop of decrypt: st = [tagMatch, examined], examined the byte
\* positions the loop has looked at, in order.
NoComparison == [tagMatch |-> TRUE, examined |-> << >>]

\* A loop that leaves at the first byte that differs.
RECURSIVE tagLoopShortCircuit(_, _, _, _)
tagLoopShortCircuit(receivedTag, computedTag, i, st) ==
  IF i >= TagLen THEN st
  ELSE IF receivedTag[i + 1] # computedTag[i + 1]
  THEN [tagMatch |-> FALSE, examined |-> Append(st.examined, i)]
  ELSE tagLoopShortCircuit(receivedTag, computedTag, i + 1,
                           [st EXCEPT !.examined = Append(st.examined, i)])

RECURSIVE tagLoop(_, _, _, _)
tagLoop(receivedTag, computedTag, i, st) ==
  IF i >= TagLen THEN st
  ELSE tagLoop(receivedTag, computedTag, i + 1,
               [tagMatch |-> IF receivedTag[i + 1] # computedTag[i + 1] THEN FALSE
                             ELSE st.tagMatch,
                examined |-> Append(st.examined, i)])

\* The comparison that leaves at the first mismatch.
compareTagsShortCircuit(receivedTag, computedTag) ==
  tagLoopShortCircuit(receivedTag, computedTag, 0, NoComparison)

\* let tagMatch = true; for (let i = 0; i < 16; i++) ...
compareTags(receivedTag, computedTag) ==
  tagLoop(receivedTag, computedTag, 0, NoComparison)

\* decrypt without the length check: a ciphertext shorter than the tag fails
\* the tag comparison.
decryptWithoutLengthCheck(sessionKey, iv, ciphertext) ==
  LET keys == deriveKeys(sessionKey)
      ctBuffer == ciphertext
      cut == IF Len(ctBuffer) < TagLen THEN 0 ELSE Len(ctBuffer) - TagLen
      actualCiphertext == SubSeq(ctBuffer, 1, cut)
      receivedTag == SubSeq(ctBuffer, cut + 1, Len(ctBuffer))
      computedMAC == computeMAC(keys.macKey, iv, actualCiphertext)
      computedTag == SubSeq(computedMAC, 1, TagLen)
      tagMatch == \A i \in 1 .. TagLen :
                    i <= Len(receivedTag) /\ receivedTag[i] = computedTag[i]
  IN  IF ~tagMatch
      THEN [err |-> "auth-tag-mismatch", data |-> << >>]
      ELSE [err |-> "none", data |-> xorCrypt(actualCiphertext, keys.encKey, iv)]

\* decrypt(sessionKey, iv, ciphertext): [err, data], err = "none" on success.
decrypt(sessionKey, iv, ciphertext) ==
  LET keys == deriveKeys(sessionKey)
      ctBuffer == ciphertext
  IN  IF Len(ctBuffer) < TagLen
      THEN [err |-> "short-ciphertext", data |-> << >>]
      ELSE LET actualCiphertext == SubSeq(ctBuffer, 1, Len(ctBuffer) - TagLen)
               receivedTag == SubSeq(ctBuffer, Len(ctBuffer) - TagLen + 1, Len(ctBuffer))
               computedMAC == computeMAC(keys.macKey, iv, actualCiphertext)
               computedTag == SubSeq(computedMAC, 1, TagLen)
               tagMatch == compareTags(receivedTag, computedTag).tagMatch
           IN  IF ~tagMatch
               THEN [err |-> "auth-tag-mismatch", data |-> << >>]
               ELSE [err |-> "none",
                     data |-> xorCrypt(actualCiphertext, keys.encKey, iv)]

\* What decrypt does on its way, in order: the operations it runs, and the tag
\* positions its loop examines.
NoSteps == [ops |-> << >>, examined |-> << >>]
decryptSteps(sessionKey, iv, ciphertext) ==
  LET keys == deriveKeys(sessionKey)
      ctBuffer == ciphertext
  IN  IF Len(ctBuffer) < TagLen
      THEN [ops |-> << "deriveKeys" >>, examined |-> << >>]
      ELSE LET actualCiphertext == SubSeq(ctBuffer, 1, Len(ctBuffer) - TagLen)
               receivedTag == SubSeq(ctBuffer, Len(ctBuffer) - TagLen + 1, Len(ctBuffer))
               computedMAC == computeMAC(keys.macKey, iv, actualCiphertext)
               computedTag == SubSeq(computedMAC, 1, TagLen)
               loop == compareTags(receivedTag, computedTag)
           IN  [ops |-> << "deriveKeys", "computeMAC", "compare" >>
                          \o (IF loop.tagMatch THEN << "xorCrypt" >> ELSE << >>),
                examined |-> loop.examined]

\* decryptToString(sessionKey, iv, ciphertext): [err, data], data a string.
decryptToString(sessionKey, iv, ciphertext) ==
  LET decrypted == decrypt(sessionKey, iv, ciphertext)
  IN  IF decrypted.err # "none" THEN decrypted
      ELSE [err |-> "none", data |-> Utf8Decode(decrypted.data)]

(***************************************************************************)
(* utils: modPow, createVerifier.                                          *)
(***************************************************************************)
\* The while loop of modPow: (x, pow, result) until pow = 0.
RECURSIVE ModPowLoop(_, _, _, _)
ModPowLoop(x, pow, mod, result) ==
  IF pow > 0
  THEN IF pow % 2 = 1
       THEN ModPowLoop(x, pow - 1, mod, (x * result) % mod)
       ELSE ModPowLoop((x * x) % mod, pow \div 2, mod, result)
  ELSE result

\* modPow that does not look at the sign of pow.
modPowUncheckedPower(x, pow, mod) ==
  IF x < 0 THEN [err |-> "Invalid base", val |-> 0]
  ELSE IF mod < 1 THEN [err |-> "Invalid modulo", val |-> 0]
  ELSE [err |-> "none", val |-> ModPowLoop(x, pow, mod, 1)]

\* modPow(x, pow, mod): [err, val], err = "none" when a value is returned.
modPow(x, pow, mod) ==
  IF x < 0 THEN [err |-> "Invalid base", val |-> 0]
  ELSE IF pow < 0 THEN [err |-> "Invalid power", val |-> 0]
  ELSE IF mod < 1 THEN [err |-> "Invalid modulo", val |-> 0]
  ELSE [err |-> "none", val |-> ModPowLoop(x, pow, mod, 1)]


\* An error: its kind and the words its message mentions.
NoError == [kind |-> "none", mentions |-> {}]
Error(kind, mentions) == [kind |-> kind, mentions |-> mentions]

\* String.prototype.trim
IsWhiteSpace(c) ==
  c \in {9, 10, 11, 12, 13, 32, 160, 5760, 8232, 8233, 8239, 8287, 12288, 65279}
    \/ (c >= 8192 /\ c <= 8202)

RECURSIVE TrimStart(_)
TrimStart(str) ==
  IF str # << >> /\ IsWhiteSpace(Head(str)) THEN TrimStart(Tail(str)) ELSE str

RECURSIVE TrimEnd(_)
TrimEnd(str) ==
  IF str # << >> /\ IsWhiteSpace(str[Len(str)])
  THEN TrimEnd(SubSeq(str, 1, Len(str) - 1))
  ELSE str

Trim(str) == TrimEnd(TrimStart(str))

\* !str for a string or null, !n for a bigint or null.
FalsyString(str) == str = NullSeq \/ str = << >>
FalsyBigInt(n) == n = NullInt \/ n = 0

(***************************************************************************)
(* Routines: the SRP-6a formulas over parameters (N, g, H).                *)
(*                                                                         *)
(* A digest read as a bigint is wider than the model's integers.  It is    *)
(* kept as its bytes; where it is an exponent of a base coprime to the     *)
(* prime N it acts through its residue mod N - 1, and where it is a factor *)
(* through its residue mod N.                                              *)
(***************************************************************************)
\* Byte length of N, the PAD length.
NBytes(parameters) == Len(bigIntToArrayBuffer(parameters.N))

\* base^e mod N for an exponent e > 0 given by its residue mod N - 1.
PowResidue(parameters, base, expResidue) ==
  IF base % parameters.N = 0 THEN 0
  ELSE modPow(base % parameters.N, expResidue, parameters.N).val

\* k = H(PAD(N) || PAD(g)), as a residue mod N.
computeK(parameters) ==
  BytesMod(hashPadded(parameters, NBytes(parameters),
                      << bigIntToArrayBuffer(parameters.N),
                         bigIntToArrayBuffer(parameters.g) >>),
           parameters.N)

\* x = H(s || H(I || ":" || P)), the digest.
computeX(parameters, I, s, P) ==
  hash(parameters,
       << bigIntToArrayBuffer(s),
          hash(parameters,
               << stringToArrayBuffer(I), << 58 >>, stringToArrayBuffer(P) >>) >>)

\* v = g^x mod N
computeVerifier(parameters, x) ==
  PowResidue(parameters, parameters.g, BytesMod(x, parameters.N - 1))

\* u = H(PAD(A) || PAD(B)), the digest.
computeU(parameters, A, B) ==
  hashPadded(parameters, NBytes(parameters),
             << bigIntToArrayBuffer(A), bigIntToArrayBuffer(B) >>)

\* A = g^a mod N
computeClientPublicValue(parameters, a) ==
  modPow(parameters.g, a, parameters.N).val

\* B = (k * v + g^b) mod N
computeServerPublicValue(parameters, k, v, b) ==
  (k * v + modPow(parameters.g, b, parameters.N).val) % parameters.N

\* S_client = (B - k * g^x) ^ (a + u * x) mod N
computeClientSessionKey(parameters, k, x, u, a, B) ==
  LET N == parameters.N
      xr == BytesMod(x, N - 1)
      ur == BytesMod(u, N - 1)
      gx == PowResidue(parameters, parameters.g, xr)
      base == ((B % N) + N * N - ((k * gx) % N)) % N
  IN  PowResidue(parameters, base, (a + ur * xr) % (N - 1))

\* S_server = (A * v^u) ^ b mod N
computeServerSessionKey(parameters, v, u, A, b) ==
  LET N == parameters.N
      vu == PowResidue(parameters, v, BytesMod(u, N - 1))
  IN  PowResidue(parameters, (A % N) * vu, b % (N - 1))

\* M1 = H(PAD(A) || PAD(B) || PAD(S)), the digest.
computeClientEvidence(parameters, A, B, S) ==
  hashPadded(parameters, NBytes(parameters),
             << bigIntToArrayBuffer(A), bigIntToArrayBuffer(B),
                bigIntToArrayBuffer(S) >>)

\* M2 = H(PAD(A) || M1 || PAD(S)), the digest.
computeServerEvidence(parameters, A, M1, S) ==
  hash(parameters,
       << padStartArrayBuffer(bigIntToArrayBuffer(A), NBytes(parameters)),
          M1,
          padStartArrayBuffer(bigIntToArrayBuffer(S), NBytes(parameters)) >>)

\* isValidPublicValue(x) <=> x mod N # 0
isValidPublicValue(parameters, x) == x % parameters.N # 0

\* createVerifier that derives x from (P, s, I) in place of (I, s, P).
createVerifierSwapped(parameters, I, s, P) ==
  IF FalsyString(I) \/ Trim(I) = << >>
  THEN [err |-> Error("bad-argument", {"null", "empty"}), v |-> NullInt]
  ELSE IF FalsyBigInt(s)
  THEN [err |-> Error("bad-argument", {"null"}), v |-> NullInt]
  ELSE IF FalsyString(P)
  THEN [err |-> Error("bad-argument", {"null"}), v |-> NullInt]
  ELSE [err |-> NoError,
        v |-> computeVerifier(parameters, computeX(parameters, P, s, I))]

\* createVerifier(routines, I, s, P): [err, v].
createVerifier(parameters, I, s, P) ==
  IF FalsyString(I) \/ Trim(I) = << >>
  THEN [err |-> Error("bad-argument", {"null", "empty"}), v |-> NullInt]
  ELSE IF FalsyBigInt(s)
  THEN [err |-> Error("bad-argument", {"null"}), v |-> NullInt]
  ELSE IF FalsyString(P)
  THEN [err |-> Error("bad-argument", {"null"}), v |-> NullInt]
  ELSE [err |-> NoError,
        v |-> computeVerifier(parameters, computeX(parameters, I, s, P))]

(***************************************************************************)
(* Bounds and input sets.                                                  *)
(***************************************************************************)
MaxPw == 2      \* distinct non-empty passwords a caller may use
MaxSalt == 1    \* generateRandomSalt draws from 0 .. MaxSalt
MaxPriv == 2    \* generatePrivateValue draws one of MaxPriv values
MaxIV == 1      \* generateIV draws one of MaxIV + 1 sixteen-byte values
FlipSpan == 1   \* tampering flips bits in the first and last FlipSpan bytes of a part

Params == DefaultParameters

\* The multiplier k of the sessions' routines.
kParams == computeK(Params)

\* Identities and passwords a caller may pass, null included.
Identities == {NullSeq, << >>, << 32 >>, << 97 >>}
Passwords == {NullSeq, << >>} \cup {<< 98 + i >> : i \in 0 .. (MaxPw - 1)}
Salts == 0 .. MaxSalt
PrivateValues == {1009 * i : i \in 1 .. MaxPriv}

\* The generators random bytes come from: the process-wide secure source that
\* generateRandom fills its buffer from, and the generator generateIV() draws
\* each of its sixteen bytes from.
SecureRandom == "crossEnvCrypto.randomBytes"
generateRandomSource == SecureRandom
generateIVSource == "Math.random"

\* A sixteen-byte value generateIV() may return.
IVOf(k) == SubSeq([i \in 1 .. IVLen |-> (k * 37 + i * 11) % 256], 1, IVLen)
IVs == {IVOf(k) : k \in 0 .. MaxIV}

\* A buffer of n bytes.
BytesOf(n) == SubSeq([i \in 1 .. n |-> (i * 7 + n) % 256], 1, n)

\* Plaintexts of the sessions: a string and a buffer.
SessionPlaintexts ==
  {[type |-> "string", val |-> << 72, 233, 8364 >>],
   [type |-> "bytes", val |-> << 1, 2, 3, 4, 5, 255, 128, 0 >>]}

NoDigest == << >>

\* Forged public values.  The model's digest can be searched, so a peer can
\* look for a public value whose scrambler u with the other side's value is 0.
\* ScramblerIsZero is the fast test of that search over PAD(A) || PAD(B) for
\* values below N; step2 decides by computeU.
ScramblerIsZero(A, B) ==
  HashAcc(Params.H, << A \div 256, A % 256, B \div 256, B % 256 >>) = 0

\* The verifiers registration can store, the B a server session can hold and
\* the A a client session can hold.
Verifiers ==
  {createVerifier(Params, I, s, P).v : I \in Identities, s \in Salts, P \in Passwords}
    \ {NullInt}
ServerPublicValues ==
  {computeServerPublicValue(Params, kParams, v, b) : v \in Verifiers, b \in PrivateValues}
ClientPublicValues == {computeClientPublicValue(Params, a) : a \in PrivateValues}

\* The pairs (A, B), B a server's value, with u = 0, and the B with u = 0 for
\* an A some client draws.
ZeroScramblerPairs ==
  UNION {{<< A, B >> : A \in {x \in 1 .. (Params.N - 1) : ScramblerIsZero(x, B)}} :
           B \in ServerPublicValues}
ZeroScramblerServerValues ==
  UNION {{B : B \in {x \in 1 .. (Params.N - 1) : ScramblerIsZero(A, x)}} :
           A \in ClientPublicValues}

(***************************************************************************)
(* State.                                                                  *)
(***************************************************************************)
VARIABLES
  reg,       \* registration: the result of createVerifierAndSalt
  client,    \* the client session: its stage and what the stage object holds
  server,    \* the server session: S0, or S1 holding {I, s, v, b, B}
  sessions,  \* the S2 objects of the server's S1, a function of A
  call,      \* the last call on a session or on the layer: arguments and outcome
  wire,      \* the encrypted message in flight: who produced it, from what
  layer      \* the encryption layer used on its own: whether, and its S

vars == << reg, client, server, sessions, call, wire, layer >>

NoReg == [state |-> "none", I |-> NullSeq, P |-> NullSeq, s |-> NullInt,
          v |-> NullInt, err |-> NoError]
\* a and B are kept beside the stage object: the ephemeral step2 drew and the B
\* it was given.
NoClient == [stage |-> "C0", I |-> NullSeq, P |-> NullSeq, A |-> NullInt,
             M1 |-> NoDigest, S |-> NullInt, s |-> NullInt, a |-> NullInt,
             B |-> NullInt]
NoServer == [stage |-> "S0", I |-> NullSeq, s |-> NullInt, v |-> NullInt,
             b |-> NullInt, B |-> NullInt]
NoData == [type |-> "bytes", val |-> << >>]
NoWire == [from |-> "none", A |-> NullInt, S |-> NullInt, data |-> NoData,
           iv |-> << >>, ivFrom |-> "none", ciphertext |-> << >>]
NoTampering == [kind |-> "none", pos |-> 0, bit |-> 0]
NoCall == [by |-> "none", op |-> "none", I |-> NullSeq, P |-> NullSeq, s |-> NullInt,
           v |-> NullInt, B |-> NullInt, a |-> NullInt, A |-> NullInt, M1 |-> NoDigest, M2 |-> NoDigest,
           how |-> NoTampering, iv |-> << >>, ciphertext |-> << >>,
           err |-> NoError, res |-> << >>, msg |-> NoWire, steps |-> NoSteps]
\* parameters: the SRPParameters of the session whose S the layer is handed.
NoLayer == [on |-> FALSE, S |-> 0, parameters |-> DefaultParameters]

Init ==
  /\ reg = NoReg
  /\ client = NoClient
  /\ server = NoServer
  /\ sessions = << >>
  /\ call = NoCall
  /\ wire = NoWire
  /\ layer = NoLayer

(***************************************************************************)
(* Registration.                                                           *)
(***************************************************************************)
\* createVerifierAndSalt(routines, I, P), with s the salt generateRandomSalt drew.
createVerifierAndSalt(I, P, s) ==
  LET r == createVerifier(Params, I, s, P)
  IN  IF r.err.kind # "none"
      THEN [state |-> "failed", I |-> I, P |-> P, s |-> s, v |-> NullInt, err |-> r.err]
      ELSE [state |-> "ok", I |-> I, P |-> P, s |-> s, v |-> r.v, err |-> NoError]

Register ==
  /\ reg.state # "ok"
  /\ \E I \in Identities, P \in Passwords, s \in Salts :
       reg' = createVerifierAndSalt(I, P, s)
  /\ UNCHANGED << client, server, sessions, call, wire, layer >>

(***************************************************************************)
(* Client session: C0 -> C1 -> C2 -> C3.                                   *)
(***************************************************************************)
\* encrypt and decrypt read the sessions and leave them as they are, so the runs
\* explored take the handshake steps first and exchange messages after them.
Handshaking ==
  wire = NoWire /\ call.op \notin {"encrypt", "decrypt", "decryptToString"}

\* step1 that takes an empty password.
clientStep1EmptyPassword(I, P) ==
  IF FalsyString(I) \/ Trim(I) = << >>
  THEN [err |-> Error("bad-argument", {"null", "empty"}), next |-> NoClient]
  ELSE IF P = NullSeq
  THEN [err |-> Error("bad-argument", {"null"}), next |-> NoClient]
  ELSE [err |-> NoError, next |-> [NoClient EXCEPT !.stage = "C1", !.I = I, !.P = P]]

\* SRPClientSession.step1(I, P): [err, next], next the C1 object.
clientStep1(I, P) ==
  IF FalsyString(I) \/ Trim(I) = << >>
  THEN [err |-> Error("bad-argument", {"null", "empty"}), next |-> NoClient]
  ELSE IF FalsyString(P)
  THEN [err |-> Error("bad-argument", {"null"}), next |-> NoClient]
  ELSE [err |-> NoError, next |-> [NoClient EXCEPT !.stage = "C1", !.I = I, !.P = P]]

\* step2 that does not look at B mod N.
clientStep2UncheckedB(c1, s, B, a) ==
  IF s = NullInt \/ B = NullInt
  THEN [err |-> Error("bad-argument", {"null"}), next |-> c1]
  ELSE LET x == computeX(Params, c1.I, s, c1.P)
           A == computeClientPublicValue(Params, a)
           u == computeU(Params, A, B)
           S == computeClientSessionKey(Params, kParams, x, u, a, B)
           M1 == computeClientEvidence(Params, A, B, S)
       IN  IF IsZeroBytes(u)
           THEN [err |-> Error("bad-scrambler", {}), next |-> c1]
           ELSE [err |-> NoError,
                 next |-> [c1 EXCEPT !.stage = "C2", !.A = A, !.M1 = M1,
                                     !.S = S, !.s = s, !.a = a, !.B = B]]

\* step2 that stores s and B on the session before it validates them.
clientStep2StoresFirst(c1, s, B, a) ==
  LET kept == [c1 EXCEPT !.s = s, !.B = B]
  IN  IF s = NullInt \/ B = NullInt
      THEN [err |-> Error("bad-argument", {"null"}), next |-> kept]
      ELSE IF ~isValidPublicValue(Params, B)
      THEN [err |-> Error("bad-server-public-value", {}), next |-> kept]
      ELSE LET x == computeX(Params, c1.I, s, c1.P)
               A == computeClientPublicValue(Params, a)
               u == computeU(Params, A, B)
               S == computeClientSessionKey(Params, kParams, x, u, a, B)
               M1 == computeClientEvidence(Params, A, B, S)
           IN  IF ~isValidPublicValue(Params, A)
               THEN [err |-> Error("bad-client-public-value", {}), next |-> kept]
               ELSE IF IsZeroBytes(u)
               THEN [err |-> Error("bad-scrambler", {}), next |-> kept]
               ELSE [err |-> NoError,
                     next |-> [c1 EXCEPT !.stage = "C2", !.A = A, !.M1 = M1,
                                         !.S = S, !.s = s, !.a = a, !.B = B]]

\* C1.step2(s, B), with a the value generatePrivateValue drew.
clientStep2(c1, s, B, a) ==
  IF s = NullInt \/ B = NullInt
  THEN [err |-> Error("bad-argument", {"null"}), next |-> c1]
  ELSE IF ~isValidPublicValue(Params, B)
  THEN [err |-> Error("bad-server-public-value", {}), next |-> c1]
  ELSE LET x == computeX(Params, c1.I, s, c1.P)
           A == computeClientPublicValue(Params, a)
           u == computeU(Params, A, B)
           S == computeClientSessionKey(Params, kParams, x, u, a, B)
           M1 == computeClientEvidence(Params, A, B, S)
       IN  IF ~isValidPublicValue(Params, A)
           THEN [err |-> Error("bad-client-public-value", {}), next |-> c1]
           ELSE IF IsZeroBytes(u)
           THEN [err |-> Error("bad-scrambler", {}), next |-> c1]
           ELSE [err |-> NoError,
                 next |-> [c1 EXCEPT !.stage = "C2", !.A = A, !.M1 = M1,
                                     !.S = S, !.s = s, !.a = a, !.B = B]]

\* step3 that takes any M2 that is not null.
clientStep3Uncompared(c2, M2) ==
  IF M2 = NullSeq
  THEN [err |-> Error("bad-argument", {"null"}), next |-> c2]
  ELSE [err |-> NoError, next |-> [c2 EXCEPT !.stage = "C3"]]

\* C2.step3(M2)
clientStep3(c2, M2) ==
  IF M2 = NullSeq
  THEN [err |-> Error("bad-argument", {"null"}), next |-> c2]
  ELSE IF M2 # computeServerEvidence(Params, c2.A, c2.M1, c2.S)
  THEN [err |-> Error("bad-server-evidence", {}), next |-> c2]
  ELSE [err |-> NoError, next |-> [c2 EXCEPT !.stage = "C3"]]

\* A caller opens the client session once the account is registered.
ClientStep1 ==
  /\ Handshaking
  /\ reg.state = "ok"
  /\ client.stage = "C0"
  /\ \E I \in Identities, P \in Passwords :
       LET r == clientStep1(I, P)
       IN  /\ client' = r.next
           /\ call' = [NoCall EXCEPT !.by = "client", !.op = "step1", !.I = I, !.P = P,
                                     !.err = r.err]
  /\ UNCHANGED << reg, server, sessions, wire, layer >>

\* Values of s and B a client may be handed: the server's own, and forged ones.
SaltInputs == {NullInt, server.s}
ServerPublicInputs ==
  {NullInt, 0, Params.N, 2 * Params.N, Params.N + 1, server.B}
    \cup ZeroScramblerServerValues

ClientStep2 ==
  /\ Handshaking
  /\ client.stage = "C1"
  /\ server.stage = "S1"
  /\ \E s \in SaltInputs, B \in ServerPublicInputs, a \in PrivateValues :
       LET r == clientStep2(client, s, B, a)
       IN  /\ client' = r.next
           /\ call' = [NoCall EXCEPT !.by = "client", !.op = "step2", !.s = s, !.B = B,
                                     \* a is drawn once s and B have passed
                                     !.a = IF r.err.kind \in {"bad-argument",
                                                              "bad-server-public-value"}
                                           THEN NullInt ELSE a,
                                     !.err = r.err]
  /\ UNCHANGED << reg, server, sessions, wire, layer >>

\* Values of M2 a client may be handed: what the server returned, and forged ones.
ServerEvidenceInputs ==
  {NullSeq, Digest(Params.H, << 0 >>)}
    \cup {sessions[A].M2 : A \in DOMAIN sessions}

ClientStep3 ==
  /\ Handshaking
  /\ client.stage = "C2"
  /\ \E M2 \in ServerEvidenceInputs :
       LET r == clientStep3(client, M2)
       IN  /\ client' = r.next
           /\ call' = [NoCall EXCEPT !.by = "client", !.op = "step3", !.M2 = M2, !.err = r.err]
  /\ UNCHANGED << reg, server, sessions, wire, layer >>

(***************************************************************************)
(* Server session: S0 -> S1, and one S2 per verified A.                    *)
(***************************************************************************)
\* SRPServerSession.step1(I, s, v), with b the value generatePrivateValue drew.
serverStep1(I, s, v, b) ==
  IF I = NullSeq \/ s = NullInt \/ v = NullInt
  THEN [err |-> Error("bad-argument", {"null"}), next |-> NoServer]
  ELSE [err |-> NoError,
        next |-> [stage |-> "S1", I |-> I, s |-> s, v |-> v, b |-> b,
                  B |-> computeServerPublicValue(Params, kParams, v, b)]]

\* step2 that does not look at A mod N.
serverStep2UncheckedA(s1, A, M1) ==
  IF A = NullInt \/ M1 = NullSeq
  THEN [err |-> Error("bad-argument", {"null"}), M2 |-> NoDigest, S |-> NullInt]
  ELSE LET u == computeU(Params, A, s1.B)
           S == computeServerSessionKey(Params, s1.v, u, A, s1.b)
       IN  IF IsZeroBytes(u)
           THEN [err |-> Error("bad-scrambler", {}), M2 |-> NoDigest, S |-> NullInt]
           ELSE IF M1 # computeClientEvidence(Params, A, s1.B, S)
           THEN [err |-> Error("bad-client-evidence", {}), M2 |-> NoDigest,
                 S |-> NullInt]
           ELSE [err |-> NoError, M2 |-> computeServerEvidence(Params, A, M1, S),
                 S |-> S]

\* S1.step2(A, M1): [err, M2, S]
serverStep2(s1, A, M1) ==
  IF A = NullInt \/ M1 = NullSeq
  THEN [err |-> Error("bad-argument", {"null"}), M2 |-> NoDigest, S |-> NullInt]
  ELSE IF ~isValidPublicValue(Params, A)
  THEN [err |-> Error("bad-client-public-value", {}), M2 |-> NoDigest, S |-> NullInt]
  ELSE LET u == computeU(Params, A, s1.B)
           S == computeServerSessionKey(Params, s1.v, u, A, s1.b)
       IN  IF IsZeroBytes(u)
           THEN [err |-> Error("bad-scrambler", {}), M2 |-> NoDigest, S |-> NullInt]
           ELSE IF M1 # computeClientEvidence(Params, A, s1.B, S)
           THEN [err |-> Error("bad-client-evidence", {}), M2 |-> NoDigest,
                 S |-> NullInt]
           ELSE [err |-> NoError, M2 |-> computeServerEvidence(Params, A, M1, S),
                 S |-> S]

\* The server opens its session with the stored record once a client has started.
ServerStep1 ==
  /\ Handshaking
  /\ server.stage = "S0"
  /\ reg.state = "ok"
  /\ client.stage = "C1"
  /\ \E I \in {NullSeq, reg.I}, s \in {NullInt, reg.s}, v \in {NullInt, reg.v},
        b \in PrivateValues :
       LET r == serverStep1(I, s, v, b)
       IN  \* a b whose B is 0 mod N is drawn again
           /\ r.err.kind = "none" => isValidPublicValue(Params, r.next.B)
           /\ server' = r.next
           /\ call' = [NoCall EXCEPT !.by = "server", !.op = "step1", !.I = I,
                                     !.s = s, !.v = v, !.err = r.err]
  /\ UNCHANGED << reg, client, sessions, wire, layer >>

\* The other sessions the registered user has open against this S1: the C2 each
\* reached with the server's s and B and an ephemeral of its own.
OtherSessions ==
  {o \in {clientStep2([NoClient EXCEPT !.stage = "C1", !.I = reg.I, !.P = reg.P],
                      server.s, server.B, a).next : a \in PrivateValues \ {client.a}} :
     o.stage = "C2"}

\* Values of A and M1 a server may be handed: the client's own, and forged ones.
ClientPublicInputs ==
  {NullInt, 0, Params.N, 2 * Params.N, client.A}
    \cup {p[1] : p \in {q \in ZeroScramblerPairs : q[2] = server.B}}
\* The evidence of a client that sent A = 0 and takes S to be 0.
ZeroKeyEvidence == computeClientEvidence(Params, 0, server.B, 0)
ClientEvidenceInputs ==
  {NullSeq, Digest(Params.H, << 0 >>), ZeroKeyEvidence, client.M1}

\* S1 that keeps the S2 of its last verification only, and none after a failure.
recordSessionLastOnly(s2s, A, r) ==
  IF r.err.kind = "none" THEN (A :> [S |-> r.S, M2 |-> r.M2]) ELSE << >>

\* S1 keeps the outcome r of step2(A, M1): an S2 under A when it succeeded.
recordSession(s2s, A, r) ==
  IF r.err.kind = "none" THEN (A :> [S |-> r.S, M2 |-> r.M2]) @@ s2s ELSE s2s

\* A client that was handed a forged B is in an exchange with another party:
\* this S1 is called once the client has taken step2 with this S1's B.
ServerStep2 ==
  /\ Handshaking
  /\ server.stage = "S1"
  /\ client.stage \in {"C2", "C3"}
  /\ client.B = server.B
  /\ \E A \in ClientPublicInputs, M1 \in ClientEvidenceInputs :
       LET r == serverStep2(server, A, M1)
       IN  /\ sessions' = recordSession(sessions, A, r)
           /\ call' = [NoCall EXCEPT !.by = "server", !.op = "step2", !.A = A,
                                     !.M1 = M1, !.M2 = r.M2, !.err = r.err]
  /\ UNCHANGED << reg, client, server, wire, layer >>

\* S1.step2(A, M1) for another session of the user: its A, with its own M1 or
\* with the M1 of the client.
ServerStep2Other ==
  /\ Handshaking
  /\ server.stage = "S1"
  /\ client.stage \in {"C2", "C3"}
  /\ client.B = server.B
  /\ \E o \in OtherSessions : \E M1 \in {o.M1, client.M1} :
       LET r == serverStep2(server, o.A, M1)
       IN  /\ sessions' = recordSession(sessions, o.A, r)
           /\ call' = [NoCall EXCEPT !.by = "server", !.op = "step2", !.A = o.A,
                                     !.M1 = M1, !.M2 = r.M2, !.err = r.err]
  /\ UNCHANGED << reg, client, server, wire, layer >>

(***************************************************************************)
(* Encrypted messages.                                                     *)
(***************************************************************************)
DecryptOps == {"decrypt", "decryptToString"}
FlipBits == {0, 7}

\* The positions lo .. hi within FlipSpan of either end.
Ends(lo, hi) == {p \in lo .. hi : p < lo + FlipSpan \/ p > hi - FlipSpan}

\* What may happen to a pair (iv, ciphertext) on its way: nothing, one bit of the
\* iv or of the ciphertext flipped, the ciphertext cut to fewer bytes, the
\* boundary between the two moved: the first byte of the ciphertext handed over
\* as the last byte of the iv, or the last byte of the iv, or all of it, handed
\* over as the first bytes of the ciphertext.
Untampered == [kind |-> "same", pos |-> 0, bit |-> 0]
Tamperings(ciphertext) ==
  LET L == Len(ciphertext)
  IN  {Untampered}
        \cup {[kind |-> "flip-iv", pos |-> p, bit |-> b] :
                p \in Ends(1, IVLen), b \in FlipBits}
        \cup {[kind |-> "flip-ct", pos |-> p, bit |-> b] :
                p \in Ends(1, L - TagLen) \cup Ends(L - TagLen + 1, L), b \in FlipBits}
        \cup {[kind |-> "cut", pos |-> n, bit |-> 0] : n \in {0, TagLen - 1}}
        \cup {[kind |-> "to-iv", pos |-> 1, bit |-> 0] : n \in {L} \ {TagLen}}
        \cup {[kind |-> "from-iv", pos |-> n, bit |-> 0] : n \in {1, IVLen}}

\* What the sessions are handed: the pair as sent, read as bytes or as a string,
\* the pair with bit 7 of ciphertext[0] flipped, the pair cut below the tag length.
SessionInputs ==
  {[op |-> "decrypt", how |-> Untampered],
   [op |-> "decryptToString", how |-> Untampered],
   [op |-> "decrypt", how |-> [kind |-> "flip-ct", pos |-> 1, bit |-> 7]],
   [op |-> "decrypt", how |-> [kind |-> "cut", pos |-> TagLen - 1, bit |-> 0]]}

\* The sessions' generateIV() is the layer's; the sessions are run with its first value.
SessionIVs == {IVOf(0)}

Tamper(t, iv, ciphertext) ==
  CASE t.kind = "same" -> [iv |-> iv, ciphertext |-> ciphertext]
    [] t.kind = "flip-iv" ->
         [iv |-> FlipBit(iv, t.pos, t.bit), ciphertext |-> ciphertext]
    [] t.kind = "flip-ct" ->
         [iv |-> iv, ciphertext |-> FlipBit(ciphertext, t.pos, t.bit)]
    [] t.kind = "cut" -> [iv |-> iv, ciphertext |-> SubSeq(ciphertext, 1, t.pos)]
    [] t.kind = "to-iv" ->
         [iv |-> iv \o SubSeq(ciphertext, 1, t.pos),
          ciphertext |-> SubSeq(ciphertext, t.pos + 1, Len(ciphertext))]
    [] t.kind = "from-iv" ->
         [iv |-> SubSeq(iv, 1, Len(iv) - t.pos),
          ciphertext |-> SubSeq(iv, Len(iv) - t.pos + 1, Len(iv)) \o ciphertext]

\* decrypt or decryptToString under S of the message in flight, as it arrives:
\* the call's record.
Decryption(by, op, A, S, t) ==
  LET in == Tamper(t, wire.iv, wire.ciphertext)
      r == IF op = "decrypt"
           THEN decrypt(S, in.iv, in.ciphertext)
           ELSE decryptToString(S, in.iv, in.ciphertext)
  IN  [NoCall EXCEPT !.by = by, !.op = op, !.A = A, !.how = t, !.iv = in.iv,
                     !.ciphertext = in.ciphertext,
                     !.err = IF r.err = "none" THEN NoError ELSE Error(r.err, {}),
                     !.res = r.data, !.msg = wire,
                     !.steps = decryptSteps(S, in.iv, in.ciphertext)]

\* encrypt under S: the message on the wire.
Encryption(from, A, S, data, iv) ==
  LET e == encrypt(S, data, iv)
  IN  [from |-> from, A |-> A, S |-> S, data |-> data, iv |-> e.iv,
       ivFrom |-> generateIVSource, ciphertext |-> e.ciphertext]

\* C2.encrypt(data), with iv the value generateIV() drew.
ClientEncrypt ==
  /\ client.stage \in {"C2", "C3"}
  /\ \E data \in SessionPlaintexts, iv \in SessionIVs :
       /\ wire' = Encryption("client", client.A, client.S, data, iv)
       /\ call' = [NoCall EXCEPT !.by = "client", !.op = "encrypt"]
  /\ UNCHANGED << reg, client, server, sessions, layer >>

\* C2.decrypt(iv, ciphertext), C2.decryptToString(iv, ciphertext)
ClientDecrypt ==
  /\ client.stage \in {"C2", "C3"}
  /\ wire.from # "none"
  /\ \E in \in SessionInputs :
       call' = Decryption("client", in.op, client.A, client.S, in.how)
  /\ wire' = NoWire
  /\ UNCHANGED << reg, client, server, sessions, layer >>

\* The handles A a caller may pass to the server's encrypt and decrypt.
SessionHandles == {1, client.A} \cup DOMAIN sessions

\* A lookup that takes the S2 of any verified A when there is one.
findSessionAny(s2s, A) ==
  IF s2s # << >>
  THEN [found |-> TRUE, S |-> s2s[CHOOSE x \in DOMAIN s2s : TRUE].S]
  ELSE [found |-> FALSE, S |-> NullInt]

\* The S2 session bound to A on S1: [found, S].
findSession(s2s, A) ==
  IF A \in DOMAIN s2s
  THEN [found |-> TRUE, S |-> s2s[A].S]
  ELSE [found |-> FALSE, S |-> NullInt]

\* S1.encrypt(A, data): the S2 bound to A, or an error when there is none.
ServerEncrypt ==
  /\ server.stage = "S1"
  /\ client.stage \in {"C2", "C3"}
  /\ \E A \in SessionHandles, data \in SessionPlaintexts, iv \in SessionIVs :
       LET s2 == findSession(sessions, A)
       IN  IF s2.found
           THEN /\ wire' = Encryption("server", A, s2.S, data, iv)
                /\ call' = [NoCall EXCEPT !.by = "server", !.op = "encrypt", !.A = A]
           ELSE /\ wire' = wire
                /\ call' = [NoCall EXCEPT !.by = "server", !.op = "encrypt", !.A = A,
                                          !.err = Error("no-session", {})]
  /\ UNCHANGED << reg, client, server, sessions, layer >>

\* S1.decrypt(A, iv, ciphertext), S1.decryptToString(A, iv, ciphertext)
ServerDecrypt ==
  /\ server.stage = "S1"
  /\ client.stage \in {"C2", "C3"}
  /\ wire.from # "none"
  /\ \E A \in SessionHandles, in \in SessionInputs :
       LET s2 == findSession(sessions, A)
       IN  IF s2.found
           THEN call' = Decryption("server", in.op, A, s2.S, in.how)
           ELSE call' = [NoCall EXCEPT !.by = "server", !.op = in.op, !.A = A,
                                       !.err = Error("no-session", {}), !.msg = wire]
  /\ wire' = NoWire
  /\ UNCHANGED << reg, client, server, sessions, layer >>

(***************************************************************************)
(* The encryption layer on its own: encrypt, decrypt and decryptToString   *)
(* under a session key S, over plaintexts of every kind and length class.  *)
(***************************************************************************)
SessionKeys == {0, 300, 65535}

\* The sessions the layer serves: on the default parameters, and with one S on
\* parameters that select each of the other hashes.
LayerSessions ==
  {[on |-> TRUE, S |-> S, parameters |-> DefaultParameters] : S \in SessionKeys}
    \cup {[on |-> TRUE, S |-> 300, parameters |-> [DefaultParameters EXCEPT !.H = h]] :
            h \in HashAlgs \ {DefaultParameters.H}}

\* Byte lengths around the IV length and the key length, and strings: empty,
\* ASCII, two- and three-byte characters, a surrogate pair, an unpaired
\* surrogate, a leading U+FEFF.
PlaintextLengths == {0, 1, 15, 16, 17, 63, 64, 65}
PlaintextStrings ==
  {<< >>, << 72, 105 >>, << 72, 233, 8364 >>, << 55357, 56832 >>, << 55296 >>,
   << 65279, 97 >>}
Plaintexts ==
  {[type |-> "bytes", val |-> BytesOf(n)] : n \in PlaintextLengths}
    \cup {[type |-> "string", val |-> str] : str \in PlaintextStrings}

EncInit ==
  /\ reg = NoReg
  /\ client = NoClient
  /\ server = NoServer
  /\ sessions = << >>
  /\ call = NoCall
  /\ wire = NoWire
  /\ layer \in LayerSessions

\* encrypt(sessionKey, data), with iv the value generateIV() drew.
LayerEncrypt ==
  /\ layer.on
  /\ wire = NoWire
  /\ call.op = "none"
  /\ \E data \in Plaintexts, iv \in IVs :
       /\ wire' = Encryption("layer", NullInt, layer.S, data, iv)
       /\ call' = [NoCall EXCEPT !.by = "layer", !.op = "encrypt"]
  /\ UNCHANGED << reg, client, server, sessions, layer >>

\* A second encrypt(sessionKey, data) on the session while the first message is
\* in flight: generateIV() may draw the value it drew before.  The message is
\* kept with the call, and the runs explored end here: what decrypt does with a
\* message does not depend on the messages encrypted beside it.
LayerEncryptNext ==
  /\ layer.on
  /\ wire # NoWire
  /\ call.by = "layer" /\ call.op = "encrypt" /\ call.msg = NoWire
  /\ \E data \in Plaintexts, iv \in IVs :
       call' = [call EXCEPT !.msg = Encryption("layer", NullInt, layer.S, data, iv)]
  /\ UNCHANGED << reg, client, server, sessions, wire, layer >>

\* A layer that gives up the session secret when a call ends in an error.
sessionLostOnError(l, err) == IF err = NoError THEN l ELSE [l EXCEPT !.S = 0]

\* What the caller's session is after a call of the layer that ended with err:
\* encrypt and decrypt are handed S on every call and keep nothing.
sessionAfter(l, err) == l

\* decrypt(sessionKey, iv, ciphertext), decryptToString(sessionKey, iv, ciphertext)
LayerDecrypt ==
  /\ layer.on
  /\ wire # NoWire
  /\ call.msg = NoWire
  /\ \E t \in Tamperings(wire.ciphertext), op \in DecryptOps :
       \* what was sent as a string is read as bytes or as a string
       /\ op = "decryptToString" => wire.data.type = "string"
       /\ call' = Decryption("layer", op, NullInt, layer.S, t)
  /\ wire' = NoWire
  /\ layer' = sessionAfter(layer, call'.err)
  /\ UNCHANGED << reg, client, server, sessions >>

\* A later decrypt of the pair as encrypt returned it, after an earlier decrypt
\* of that pair or of a tampered one: `after` is how the earlier call ended.
Again(after) == [kind |-> "again", pos |-> 0, bit |-> 0, after |-> after]

LayerDecryptAgain ==
  /\ layer.on
  /\ wire = NoWire
  /\ call.by = "layer" /\ call.op \in DecryptOps /\ call.how.kind # "again"
  /\ \E op \in DecryptOps :
       /\ op = "decryptToString" => call.msg.data.type = "string"
       /\ LET m == call.msg
               r == IF op = "decrypt"
                    THEN decrypt(layer.S, m.iv, m.ciphertext)
                    ELSE decryptToString(layer.S, m.iv, m.ciphertext)
           IN  call' = [call EXCEPT !.op = op, !.how = Again(call.err.kind),
                                    !.iv = m.iv, !.ciphertext = m.ciphertext,
                                    !.err = IF r.err = "none" THEN NoError
                                            ELSE Error(r.err, {}),
                                    !.res = r.data,
                                    !.steps = decryptSteps(layer.S, m.iv, m.ciphertext)]
  /\ layer' = sessionAfter(layer, call'.err)
  /\ UNCHANGED << reg, client, server, sessions, wire >>

Next ==
  \/ Register
  \/ ClientStep1
  \/ ClientStep2
  \/ ClientStep3
  \/ ServerStep1
  \/ ServerStep2
  \/ ClientEncrypt
  \/ ClientDecrypt
  \/ ServerEncrypt
  \/ ServerDecrypt

Spec == Init /\ [][Next]_vars
EncNext ==
  \/ LayerEncrypt
  \/ LayerEncryptNext
  \/ LayerDecrypt
  \/ LayerDecryptAgain

EncSpec == EncInit /\ [][EncNext]_vars

(***************************************************************************)
(* The utilities called on their own, one call a run: createVerifier over  *)
(* identities, salts and passwords, null included, and modPow over small   *)
(* integers, negative ones included.                                       *)
(***************************************************************************)
MaxBase == 9      \* modPow is called with x in -2 .. MaxBase
MaxPower == 8     \* with pow in -2 .. MaxPower
MaxModulo == 7    \* and with mod in -2 .. MaxModulo
MaxBigInt == 4200 \* bigIntToArrayBuffer is called with every n in 0 .. MaxBigInt
MaxTargetLen == 3 \* hashPadded is called with targetLen in 0 .. MaxTargetLen

\* Salts createVerifier may be handed: null, those generateRandomSalt draws, and
\* salts of one, two and three bytes.
VerifierSalts == {NullInt} \cup Salts \cup {255, 256, 65536}

\* createVerifier(routines, I, s, P)
CallCreateVerifier ==
  /\ call = NoCall
  /\ \E I \in Identities, s \in VerifierSalts, P \in Passwords :
       LET r == createVerifier(Params, I, s, P)
       IN  call' = [NoCall EXCEPT !.by = "caller", !.op = "createVerifier", !.I = I,
                                  !.s = s, !.P = P, !.v = r.v, !.err = r.err]
  /\ UNCHANGED << reg, client, server, sessions, wire, layer >>

\* modPow(x, pow, mod)
CallModPow ==
  /\ call = NoCall
  /\ \E x \in (0 - 2) .. MaxBase, pow \in (0 - 2) .. MaxPower,
        mod \in (0 - 2) .. MaxModulo :
       LET r == modPow(x, pow, mod)
       IN  call' = [by |-> "caller", op |-> "modPow", x |-> x, pow |-> pow,
                    mod |-> mod, err |-> r.err, val |-> r.val]
  /\ UNCHANGED << reg, client, server, sessions, wire, layer >>

\* Arrays xorCrypt may be handed: data of lengths around the iv length and the
\* key lengths, keys of one byte, of a length 16 does not divide, and of the
\* digest lengths 20 and 64.
XorDataLengths == {0, 1, 15, 16, 17, 33, 65}
XorKeyLengths == {1, 3, 20, 64}
KeyBytesOf(n) == SubSeq([i \in 1 .. n |-> (i * 13 + n * 5 + 1) % 256], 1, n)

\* xorCrypt(data, key, iv)
CallXorCrypt ==
  /\ call = NoCall
  /\ \E n \in XorDataLengths, k \in XorKeyLengths, iv \in IVs :
       LET data == BytesOf(n)
           key == KeyBytesOf(k)
       IN  call' = [by |-> "caller", op |-> "xorCrypt", data |-> data, key |-> key,
                    iv |-> iv, after |-> xorCryptArguments(data, key, iv),
                    res |-> xorCrypt(data, key, iv)]
  /\ UNCHANGED << reg, client, server, sessions, wire, layer >>

\* Integers bigIntToArrayBuffer may be handed: all up to MaxBigInt, and those
\* around the powers of 16 above it.
BigInts ==
  (0 .. MaxBigInt)
    \cup {65535, 65536, 1048575, 1048576, 16777215, 16777216, 268435455, 268435456,
          2147483647}

\* bigIntToArrayBuffer(n), and arrayBufferToBigInt of what it returned
CallBigIntToArrayBuffer ==
  /\ call = NoCall
  /\ \E n \in BigInts :
       LET bytes == bigIntToArrayBuffer(n)
       IN  call' = [by |-> "caller", op |-> "bigIntToArrayBuffer", n |-> n,
                    bytes |-> bytes, back |-> arrayBufferToBigInt(bytes)]
  /\ UNCHANGED << reg, client, server, sessions, wire, layer >>

\* Chunks hashPadded may be handed: empty, with and without a leading zero
\* byte, of one to four bytes; one or two at a time.
Chunks == {<< >>, << 0 >>, << 7 >>, << 1, 2 >>, << 0, 9 >>, << 1, 2, 3 >>, << 1, 2, 3, 4 >>}
ChunkLists == {<< c >> : c \in Chunks} \cup {<< c, d >> : c \in Chunks, d \in Chunks}

\* hashPadded(parameters, targetLen, ...arrays), with what padStartArrayBuffer
\* returned for each array
CallHashPadded ==
  /\ call = NoCall
  /\ \E H \in {"SHA1", "SHA512"}, targetLen \in 0 .. MaxTargetLen, arrays \in ChunkLists :
       LET parameters == [DefaultParameters EXCEPT !.H = H]
       IN  call' = [by |-> "caller", op |-> "hashPadded", H |-> H,
                    targetLen |-> targetLen, arrays |-> arrays,
                    padded |-> SubSeq([i \in 1 .. Len(arrays) |->
                                         padStartArrayBuffer(arrays[i], targetLen)],
                                      1, Len(arrays)),
                    val |-> hashPadded(parameters, targetLen, arrays)]
  /\ UNCHANGED << reg, client, server, sessions, wire, layer >>

UtilNext ==
  \/ CallCreateVerifier
  \/ CallModPow
  \/ CallXorCrypt
  \/ CallBigIntToArrayBuffer
  \/ CallHashPadded

UtilSpec == Init /\ [][UtilNext]_vars

(***************************************************************************)
(* One S1 serving several sessions of the registered user: the client, at  *)
(* C2 with the server's s and B, and the user's other sessions.            *)
(***************************************************************************)
MuxInit ==
  \E I \in Identities, P \in Passwords, s \in Salts, a \in PrivateValues,
     b \in PrivateValues :
    LET r == createVerifierAndSalt(I, P, s)
        c1 == clientStep1(I, P)
        s1 == serverStep1(I, s, r.v, b)
        c2 == clientStep2(c1.next, s, s1.next.B, a)
    IN  /\ r.state = "ok" /\ c1.err = NoError
        /\ isValidPublicValue(Params, s1.next.B) /\ c2.err = NoError
        /\ reg = r
        /\ client = c2.next
        /\ server = s1.next
        /\ sessions = << >>
        /\ call = NoCall
        /\ wire = NoWire
        /\ layer = NoLayer

MuxNext ==
  \/ ServerStep2
  \/ ServerStep2Other
  \/ ClientEncrypt
  \/ ClientDecrypt
  \/ ServerEncrypt
  \/ ServerDecrypt

MuxSpec == MuxInit /\ [][MuxNext]_vars

(***************************************************************************)
(* Properties of the handshake.                                            *)
(***************************************************************************)
ClientCalled(op) == call.by = "client" /\ call.op = op
ServerCalled(op) == call.by = "server" /\ call.op = op

\* The server session was opened with the record registration produced.
HonestServer ==
  /\ reg.state = "ok"
  /\ server.stage = "S1"
  /\ server.I = reg.I /\ server.s = reg.s /\ server.v = reg.v

\* The client session was opened with the registered identity and password.
HonestClient == reg.state = "ok" /\ client.I = reg.I /\ client.P = reg.P

\* The client took step2 with the salt and the public value of the server.
HonestExchange ==
  /\ HonestServer /\ HonestClient
  /\ client.stage \in {"C2", "C3"}
  /\ client.s = server.s /\ client.B = server.B

\* The S the server derives for the client's A.
ServerSOfClient ==
  computeServerSessionKey(Params, server.v, computeU(Params, client.A, server.B),
                          client.A, server.b)

ChecksOnly == {"none", "bad-client-public-value", "bad-scrambler"}

\* C1: with the verifier of (I, P), the salt and the same parameters, every step
\* of the honest handshake completes unless a check on A, B or u rejects the
\* ephemerals, the client's S equals the server's S for its A, and so M1 and
\* M2 are both accepted.
C1_HonestHandshakeAgrees ==
  /\ ClientCalled("step1") /\ reg.state = "ok" /\ call.I = reg.I /\ call.P = reg.P
       => call.err = NoError /\ client.stage = "C1"
  /\ ServerCalled("step1") /\ call.I = reg.I /\ call.s = reg.s /\ call.v = reg.v
       => call.err = NoError /\ HonestServer
  /\ ClientCalled("step2") /\ HonestServer /\ HonestClient
       /\ call.s = server.s /\ call.B = server.B
       => call.err.kind \in ChecksOnly
  /\ HonestExchange => client.S = ServerSOfClient
  /\ ServerCalled("step2") /\ HonestExchange
       /\ call.A = client.A /\ call.M1 = client.M1
       => /\ call.err.kind \in ChecksOnly
          /\ call.err = NoError =>
                /\ client.A \in DOMAIN sessions
                /\ sessions[client.A].S = client.S
                /\ sessions[client.A].M2 = call.M2
  /\ ClientCalled("step3") /\ HonestExchange /\ client.A \in DOMAIN sessions
       /\ call.M2 = sessions[client.A].M2
       => call.err = NoError /\ client.stage = "C3"

\* An honest handshake ran to its end: both evidences accepted, one S on both sides.
C1_Witness ==
  /\ HonestExchange
  /\ client.stage = "C3"
  /\ ClientCalled("step3") /\ call.err = NoError
  /\ client.A \in DOMAIN sessions
  /\ sessions[client.A].S = client.S

\* The client session was opened with the registered identity and another password.
WrongPassword ==
  /\ HonestServer
  /\ client.stage \in {"C2", "C3"}
  /\ client.I = reg.I /\ client.P # reg.P

\* C2: when the client took step1 with a password other than the one the
\* verifier was derived from, server.step2 with the client's A and M1 fails
\* with bad-client-evidence, returns no M2, and no S2 exists for that A.
C2_WrongPasswordRejected ==
  WrongPassword =>
    /\ client.A \notin DOMAIN sessions
    /\ ServerCalled("step2") /\ call.A = client.A /\ call.M1 = client.M1
         => call.err.kind = "bad-client-evidence" /\ call.M2 = NoDigest

\* The server was handed the A and M1 of a client that used a wrong password.
C2_Witness ==
  /\ WrongPassword
  /\ client.s = server.s /\ client.B = server.B
  /\ ServerCalled("step2") /\ call.A = client.A /\ call.M1 = client.M1
  /\ call.err.kind = "bad-client-evidence"

(***************************************************************************)
(* Properties of the encrypted messages of the sessions.                   *)
(***************************************************************************)
\* The handshake succeeded: the server holds an S2 for the client's A and the
\* client accepted the server's evidence.
Established == client.stage = "C3" /\ client.A \in DOMAIN sessions

ClientToServer ==
  call.by = "server" /\ call.A = client.A /\ call.msg.from = "client"
ServerToClient ==
  call.by = "client" /\ call.msg.from = "server" /\ call.msg.A = client.A

\* C3: after a successful handshake, what the client encrypted the server
\* decrypts for the client's A to exactly the plaintext's bytes, and what the
\* server encrypted for that A the client decrypts to exactly the plaintext's
\* bytes, for string and for binary plaintexts.
C3_SessionRoundTrip ==
  Established /\ call.op = "decrypt" /\ call.how = Untampered
    /\ (ClientToServer \/ ServerToClient)
    => call.err = NoError /\ call.res = PlaintextBytes(call.msg.data)

\* The server decrypted a string the client encrypted after the handshake.
C3_Witness ==
  /\ Established /\ call.op = "decrypt" /\ call.how = Untampered
  /\ ClientToServer
  /\ call.msg.data.type = "string"
  /\ call.res = << 72, 195, 169, 226, 130, 172 >>

(***************************************************************************)
(* Properties of the encryption layer.                                     *)
(***************************************************************************)
Decrypted == call.by = "layer" /\ call.op \in DecryptOps

\* C4: for every S and every plaintext of any byte length, decrypt of the pair
\* encrypt returned gives back exactly the plaintext's bytes, and for a string
\* plaintext decryptToString gives back the original string.
C4_RoundTrip ==
  Decrypted /\ call.how = Untampered =>
    /\ call.err = NoError
    /\ call.op = "decrypt" => call.res = PlaintextBytes(call.msg.data)
    /\ call.op = "decryptToString" /\ call.msg.data.type = "string"
         => call.res = call.msg.data.val

\* C5: a pair that differs from encrypt's output in one bit, of the iv, of the
\* data part or of the tag part, fails decrypt with the tag-mismatch error and
\* yields no plaintext.
C5_BitFlipRejected ==
  Decrypted /\ call.how.kind \in {"flip-iv", "flip-ct"} =>
    call.err.kind = "auth-tag-mismatch" /\ call.res = << >>

\* One bit of the iv of a non-empty message was flipped and decrypt refused it.
C5_Witness ==
  /\ Decrypted /\ call.how.kind = "flip-iv"
  /\ call.iv # call.msg.iv /\ call.ciphertext = call.msg.ciphertext
  /\ Len(call.msg.ciphertext) > TagLen
  /\ call.err.kind = "auth-tag-mismatch"

\* C6: decrypt of a ciphertext of fewer than 16 bytes, none included, fails
\* with the short-ciphertext error: no tag mismatch is reported, no data returned.
C6_ShortCiphertextRejected ==
  Decrypted /\ Len(call.ciphertext) < 16 =>
    call.err.kind = "short-ciphertext" /\ call.res = << >>

\* decrypt was handed fifteen bytes and refused them as too short.
C6_Witness ==
  /\ Decrypted /\ Len(call.ciphertext) = 15
  /\ call.err.kind = "short-ciphertext"

\* The UTF-8 byte length of a string of UTF-16 code units, counted by character
\* class; an unpaired surrogate is written as U+FFFD.
RECURSIVE Utf8ByteLength(_)
Utf8ByteLength(str) ==
  IF str = << >> THEN 0
  ELSE LET c == Head(str)
       IN  IF c < 128 THEN 1 + Utf8ByteLength(Tail(str))
           ELSE IF c < 2048 THEN 2 + Utf8ByteLength(Tail(str))
           ELSE IF c >= 55296 /\ c <= 56319 /\ Len(str) >= 2
                     /\ str[2] >= 56320 /\ str[2] <= 57343
           THEN 4 + Utf8ByteLength(Tail(Tail(str)))
           ELSE 3 + Utf8ByteLength(Tail(str))

ByteLength(data) ==
  IF data.type = "string" THEN Utf8ByteLength(data.val) ELSE Len(data.val)

\* C7: every result of encrypt has an iv of exactly 16 bytes and a ciphertext of
\* exactly len(m) + 16 bytes, len(m) the byte length of m (its UTF-8 length for
\* a string), the empty m included.
C7_EncryptLengths ==
  \A m \in {wire, call.msg} \ {NoWire} :
    Len(m.iv) = 16 /\ Len(m.ciphertext) = ByteLength(m.data) + 16

\* encrypt returned 16 + 6 bytes for a string of three characters, six bytes in UTF-8.
C7_Witness ==
  /\ wire.from = "layer"
  /\ wire.data = [type |-> "string", val |-> << 72, 233, 8364 >>]
  /\ Len(wire.iv) = 16 /\ Len(wire.ciphertext) = 22

(***************************************************************************)
(* Properties of the client's steps.                                       *)
(***************************************************************************)
WhitespaceOnly(str) ==
  str # NullSeq /\ str # << >> /\ \A i \in 1 .. Len(str) : IsWhiteSpace(str[i])
BadIdentity(I) == I = NullSeq \/ I = << >> \/ WhitespaceOnly(I)

\* What step1 does on a rejected and on an accepted (I, P).
Step1Rejects ==
  /\ call.err.kind = "bad-argument"
  /\ client = NoClient
  /\ call.I = NullSeq \/ call.P = NullSeq => "null" \in call.err.mentions
  /\ call.I = << >> => "empty" \in call.err.mentions
Step1Accepts ==
  /\ call.err = NoError
  /\ client.stage = "C1" /\ client.I = call.I /\ client.P = call.P

\* C8 as stated: step1 fails with bad-argument and yields no C1 when I is null,
\* empty or whitespace-only or P is null, the error mentioning 'null' for a null
\* I or P and 'empty' for an empty I; every other (I, P) yields C1 holding I and P.
C8_Original ==
  ClientCalled("step1") =>
    IF BadIdentity(call.I) \/ call.P = NullSeq THEN Step1Rejects ELSE Step1Accepts

\* C8, amended: the empty P is rejected with bad-argument like the null P; every
\* (I, P) with I not null, empty or whitespace-only and P not null or empty
\* yields C1 holding exactly that I and P.
C8_Step1Validation ==
  ClientCalled("step1") =>
    IF BadIdentity(call.I) \/ call.P = NullSeq \/ call.P = << >>
    THEN Step1Rejects ELSE Step1Accepts

\* step1 refused an empty password given with a valid identity.
C8_Witness ==
  /\ ClientCalled("step1")
  /\ ~BadIdentity(call.I) /\ call.P = << >>
  /\ call.err.kind = "bad-argument" /\ client.stage = "C0"

\* C9: step2 on C1 fails with bad-argument when s or B is null and with
\* bad-server-public-value when B mod N = 0; for every other s and B whose
\* u is not 0 it succeeds and yields C2 holding {A, M1, S, s}.
C9_Step2Validation ==
  ClientCalled("step2") =>
    IF call.s = NullInt \/ call.B = NullInt
    THEN call.err.kind = "bad-argument" /\ client.stage = "C1"
    ELSE IF call.B % Params.N = 0
    THEN call.err.kind = "bad-server-public-value" /\ client.stage = "C1"
    ELSE LET A == computeClientPublicValue(Params, call.a)
         IN  ~IsZeroBytes(computeU(Params, A, call.B)) =>
               /\ call.err = NoError
               /\ client.stage = "C2"
               /\ client.A = A /\ client.s = call.s
               /\ client.S \in 0 .. (Params.N - 1)
               /\ client.M1 = hashPadded(Params, 2,
                                 << bigIntToArrayBuffer(A), bigIntToArrayBuffer(call.B),
                                    bigIntToArrayBuffer(client.S) >>)

\* step2 refused a B that is a multiple of N other than 0.
C9_Witness ==
  /\ ClientCalled("step2")
  /\ call.s # NullInt /\ call.B = 2 * Params.N
  /\ call.err.kind = "bad-server-public-value" /\ client.stage = "C1"

\* C10: step3 on C2 fails with bad-argument for a null M2 and with
\* bad-server-evidence for every M2 other than H(PAD(A) || M1 || PAD(S)) of the
\* values C2 holds, and the session reaches C3 only by a step3 whose M2 is
\* that value.
C10_Step3Validation ==
  [][LET expected == computeServerEvidence(Params, client.A, client.M1, client.S)
         called == call' # call /\ call'.by = "client" /\ call'.op = "step3"
     IN  /\ called /\ call'.M2 = NullSeq
              => call'.err.kind = "bad-argument" /\ client' = client
         /\ called /\ call'.M2 # NullSeq /\ call'.M2 # expected
              => call'.err.kind = "bad-server-evidence" /\ client' = client
         /\ client'.stage = "C3" /\ client.stage # "C3"
              => /\ called /\ client.stage = "C2"
                 /\ call'.M2 = expected
                 /\ client' = [client EXCEPT !.stage = "C3"]]_vars

\* step3 refused an M2 that is not the expected evidence.
C10_Witness ==
  /\ ClientCalled("step3")
  /\ call.M2 # NullSeq
  /\ call.M2 # computeServerEvidence(Params, client.A, client.M1, client.S)
  /\ call.err.kind = "bad-server-evidence" /\ client.stage = "C2"

(***************************************************************************)
(* Properties of the server's step2.                                       *)
(***************************************************************************)
\* C11: step2(A, M1) on S1 fails with bad-client-public-value for every A with
\* A mod N = 0, whatever M1 accompanies it: no S is computed, no M2 is
\* returned, and no S2 is ever recorded under such an A.
C11_ZeroPublicValueRejected ==
  /\ \A A \in DOMAIN sessions : A % Params.N # 0
  /\ ServerCalled("step2") /\ call.A # NullInt /\ call.A % Params.N = 0
       => /\ call.M1 # NullSeq => call.err.kind = "bad-client-public-value"
          /\ call.err # NoError
          /\ call.M2 = NoDigest
          /\ serverStep2(server, call.A, call.M1).S = NullInt

\* step2 refused A = 0 sent with the evidence that fits S = 0.
C11_Witness ==
  /\ ServerCalled("step2")
  /\ call.A = 0 /\ call.M1 = ZeroKeyEvidence
  /\ call.err.kind = "bad-client-public-value"
  /\ sessions = << >>

(***************************************************************************)
(* Properties of the stages.                                               *)
(***************************************************************************)
\* What each stage object holds, and nothing more.
StageWellFormed ==
  /\ client.stage = "C0" => client = NoClient
  /\ client.stage = "C1" =>
       /\ client = [NoClient EXCEPT !.stage = "C1", !.I = client.I, !.P = client.P]
       /\ ~FalsyString(client.I) /\ ~FalsyString(client.P)
  /\ client.stage \in {"C2", "C3"} =>
       /\ ~FalsyString(client.I) /\ ~FalsyString(client.P)
       /\ client.s # NullInt /\ client.B # NullInt /\ client.a # NullInt
       /\ client.A = computeClientPublicValue(Params, client.a)
       /\ client.S # NullInt /\ Len(client.M1) = HashLen(Params.H)
  /\ server.stage = "S0" => server = NoServer /\ sessions = << >>
  /\ server.stage = "S1" =>
       /\ server.I # NullSeq /\ server.s # NullInt /\ server.v # NullInt
       /\ server.b # NullInt /\ server.B # NullInt
  /\ \A A \in DOMAIN sessions :
       sessions[A].S # NullInt /\ Len(sessions[A].M2) = HashLen(Params.H)

\* The call this step made, and how it ended.
Called(by, op) == call' # call /\ call'.by = by /\ call'.op = op
Succeeded(by, op) == Called(by, op) /\ call'.err = NoError

\* C12: a stage object exists only when the steps before it succeeded in order:
\* the client moves C0 -> C1 -> C2 -> C3 one stage at a time and only by a
\* successful step1, step2, step3; S1 comes only from a successful step1 and an
\* S2 for A only from a successful step2(A, M1) on S1; a step that raises an
\* error leaves every session object as it was.
C12_StagesInOrder ==
  /\ []StageWellFormed
  /\ [][/\ call' # call /\ call'.err # NoError
             => UNCHANGED << client, server, sessions >>
        /\ client' # client =>
             \/ /\ client.stage = "C0" /\ client'.stage = "C1"
                /\ Succeeded("client", "step1")
             \/ /\ client.stage = "C1" /\ client'.stage = "C2"
                /\ Succeeded("client", "step2")
                /\ client'.I = client.I /\ client'.P = client.P
             \/ /\ client.stage = "C2" /\ Succeeded("client", "step3")
                /\ client' = [client EXCEPT !.stage = "C3"]
        /\ server' # server =>
             /\ server.stage = "S0" /\ server'.stage = "S1"
             /\ Succeeded("server", "step1")
        /\ sessions' # sessions =>
             /\ server.stage = "S1" /\ Succeeded("server", "step2")
             /\ DOMAIN sessions' = DOMAIN sessions \cup {call'.A}
             /\ \A A \in DOMAIN sessions : sessions'[A] = sessions[A]
             /\ sessions'[call'.A].M2 = call'.M2]_vars

\* The client's step2 was refused for u = 0 and the session is still the C1 it was.
C12_Witness ==
  /\ ClientCalled("step2") /\ call.err.kind = "bad-scrambler"
  /\ client = [NoClient EXCEPT !.stage = "C1", !.I = client.I, !.P = client.P]
  /\ server.stage = "S1" /\ sessions = << >>

(***************************************************************************)
(* Properties of the S2 sessions of one S1.                                *)
(***************************************************************************)
\* The S2 that step2 yields for A on this S1.
BoundTo(A) ==
  LET S == computeServerSessionKey(Params, server.v, computeU(Params, A, server.B),
                                   A, server.b)
      M1 == computeClientEvidence(Params, A, server.B, S)
  IN  [S |-> S, M2 |-> computeServerEvidence(Params, A, M1, S)]

\* step2 for A with the evidence that fits still succeeds with the S and M2 of
\* the S2 held for A.
StillVerifies(A) ==
  LET M1 == computeClientEvidence(Params, A, server.B, sessions[A].S)
      r == serverStep2(server, A, M1)
  IN  r.err = NoError /\ r.S = sessions[A].S /\ r.M2 = sessions[A].M2

\* C13: on one S1 serving several A, in any order of step2 calls, a failed
\* step2(A1, M1) neither removes nor changes the S2 held for another A2 and does
\* not keep a later step2 for A2 from succeeding; each successful step2 yields
\* an S2 bound to its own A and leaves the others as they were.
C13_SessionsIsolated ==
  /\ [](\A A \in DOMAIN sessions : sessions[A] = BoundTo(A) /\ StillVerifies(A))
  /\ [][Called("server", "step2") =>
          /\ \A A2 \in DOMAIN sessions \ {call'.A} :
               A2 \in DOMAIN sessions' /\ sessions'[A2] = sessions[A2]
          /\ call'.err # NoError => sessions' = sessions
          /\ call'.err = NoError =>
               /\ DOMAIN sessions' = DOMAIN sessions \cup {call'.A}
               /\ sessions'[call'.A].M2 = call'.M2]_vars

\* step2 failed for one A while S1 holds the S2 of two A, each with its own S.
C13_Witness ==
  /\ ServerCalled("step2") /\ call.err.kind = "bad-client-evidence"
  /\ \E A1, A2 \in DOMAIN sessions :
       A1 # A2 /\ A2 # call.A /\ sessions[A1].S # sessions[A2].S

(***************************************************************************)
(* Properties of the server's encrypt and decrypt.                         *)
(***************************************************************************)
\* What decrypt or decryptToString under S returns for the call's iv and ciphertext.
DecryptsUnder(S) ==
  LET r == IF call.op = "decrypt"
           THEN decrypt(S, call.iv, call.ciphertext)
           ELSE decryptToString(S, call.iv, call.ciphertext)
  IN  /\ call.err = (IF r.err = "none" THEN NoError ELSE Error(r.err, {}))
      /\ call.res = r.data

\* C14: S1.encrypt(A, data) and S1.decrypt(A, iv, ct) succeed only for an A whose
\* step2(A, M1) has succeeded on this S1, and work under the S of the S2 bound
\* to that A: what another A's session encrypted is refused, the tag not fitting.
C14_ServerUsesSessionOfA ==
  /\ ServerCalled("encrypt") =>
       IF call.A \in DOMAIN sessions
       THEN /\ call.err = NoError
            /\ wire.from = "server" /\ wire.A = call.A
            /\ wire.S = BoundTo(call.A).S
            /\ wire.ciphertext = encrypt(BoundTo(call.A).S, wire.data, wire.iv).ciphertext
       ELSE call.err.kind = "no-session"
  /\ call.by = "server" /\ call.op \in DecryptOps =>
       IF call.A \in DOMAIN sessions
       THEN /\ DecryptsUnder(BoundTo(call.A).S)
            /\ call.msg.A # call.A => call.err.kind \in {"auth-tag-mismatch",
                                                         "short-ciphertext"}
       ELSE call.err.kind = "no-session" /\ call.res = << >>

\* S1 holds the S2 of two A, and decrypt under one A refused what the client
\* of the other A encrypted.
C14_Witness ==
  /\ call.by = "server" /\ call.op = "decrypt" /\ call.how = Untampered
  /\ call.msg.from = "client" /\ call.msg.A = client.A
  /\ call.A # client.A /\ call.A \in DOMAIN sessions /\ client.A \in DOMAIN sessions
  /\ call.err.kind = "auth-tag-mismatch"

(***************************************************************************)
(* Properties of the layer across calls.                                   *)
(***************************************************************************)
\* C15: encrypt and decrypt keep nothing between calls but the session secret:
\* after an earlier decrypt on the same S, whether it returned data or failed
\* with short-ciphertext or auth-tag-mismatch, the caller still holds the S the
\* message was encrypted under, and decrypt of the pair as encrypt returned it
\* gives back the plaintext's bytes.
C15_NoStateBetweenCalls ==
  /\ layer.on /\ wire # NoWire => wire.S = layer.S
  /\ Decrypted => call.msg.S = layer.S
  /\ Decrypted /\ call.how.kind = "again" =>
       /\ call.err = NoError
       /\ call.op = "decrypt" => call.res = PlaintextBytes(call.msg.data)
       /\ call.op = "decryptToString" => call.res = Utf8Decode(PlaintextBytes(call.msg.data))

\* decrypt returned the 64 bytes of a message after an earlier decrypt of the
\* same message with one bit flipped had failed for its tag.
C15_Witness ==
  /\ Decrypted /\ call.op = "decrypt"
  /\ call.how = Again("auth-tag-mismatch")
  /\ call.err = NoError /\ call.res = BytesOf(64)

(***************************************************************************)
(* Properties of the utilities.                                            *)
(***************************************************************************)
\* v = g^x mod N with x = H(s || H(I || ":" || P)), s in its big-endian bytes.
VerifierOf(I, s, P) ==
  LET inner == Digest(Params.H, Utf8Encode(I) \o << 58 >> \o Utf8Encode(P))
      x == Digest(Params.H, bigIntToArrayBuffer(s) \o inner)
  IN  modPow(Params.g, BytesMod(x, Params.N - 1), Params.N).val

\* C16: createVerifier fails with bad-argument when I is null, empty or
\* whitespace-only, when P is null or when s is null; for every other input,
\* every non-null salt and every non-null password, it returns v = g^x mod N.
C16_CreateVerifier ==
  call.op = "createVerifier" =>
    IF BadIdentity(call.I) \/ call.P = NullSeq \/ call.s = NullInt
    THEN call.err.kind = "bad-argument" /\ call.v = NullInt
    ELSE call.err = NoError /\ call.v = VerifierOf(call.I, call.s, call.P)

\* What createVerifier does: the salt 0 and the empty password are refused as
\* the null ones are, and every other input yields v = g^x mod N.
CreateVerifierAsCoded ==
  call.op = "createVerifier" =>
    IF BadIdentity(call.I) \/ call.P \in {NullSeq, << >>} \/ call.s \in {NullInt, 0}
    THEN call.err.kind = "bad-argument" /\ call.v = NullInt
    ELSE call.err = NoError /\ call.v = VerifierOf(call.I, call.s, call.P)

\* x ^ n by repeated multiplication.
RECURSIVE Power(_, _)
Power(x, n) == IF n = 0 THEN 1 ELSE x * Power(x, n - 1)

ModPowCalled == call.op = "modPow"
ValidModPowArguments == call.x >= 0 /\ call.pow >= 0 /\ call.mod >= 1

\* C17: for all x >= 0, pow >= 0 and mod >= 1, modPow(x, pow, mod) returns
\* exactly (x ^ pow) mod mod, a value in 0 .. mod - 1, pow = 0, mod = 1 and
\* x >= mod included.
C17_ModPow ==
  ModPowCalled /\ ValidModPowArguments =>
    /\ call.err = "none"
    /\ call.val = Power(call.x, call.pow) % call.mod
    /\ call.val \in 0 .. (call.mod - 1)

\* What modPow does: with pow = 0 it returns 1 whatever mod is, 1 included;
\* with every other valid argument it returns (x ^ pow) mod mod.
ModPowAsCoded ==
  ModPowCalled /\ ValidModPowArguments =>
    /\ call.err = "none"
    /\ call.val = IF call.pow = 0 THEN 1 ELSE Power(call.x, call.pow) % call.mod

\* C18: modPow raises an error and returns no value whenever x < 0, pow < 0 or
\* mod < 1, whatever the other two arguments are.
C18_ModPowRejects ==
  ModPowCalled /\ ~ValidModPowArguments => call.err # "none"

\* modPow refused a negative power given with a valid base and modulus.
C18_Witness ==
  /\ ModPowCalled
  /\ call.x = 3 /\ call.pow = 0 - 1 /\ call.mod = 5
  /\ call.err = "Invalid power"

(***************************************************************************)
(* Properties of the IV and of the keys.                                   *)
(***************************************************************************)
\* C19: every IV encrypt uses is 16 bytes drawn from the cryptographically
\* secure source, crossEnvCrypto.randomBytes, that also serves salts and
\* ephemerals; no IV byte comes from another generator.
C19_IVFromSecureSource ==
  \A m \in {wire, call.msg} \ {NoWire} :
    Len(m.iv) = 16 /\ m.ivFrom = generateRandomSource

\* The big-endian bytes of n with no leading zero byte, one zero byte for 0.
RECURSIVE BigEndian(_)
BigEndian(n) == IF n < 256 THEN << n >> ELSE BigEndian(n \div 256) \o << n % 256 >>

\* H(bytes(S) || UTF-8(label)) with H = SHA-512, label a string.
KeyOf(S, label) == Digest("SHA512", BigEndian(S) \o Utf8Encode(label))
EncKeyOf(S) == KeyOf(S, << 101, 110, 99, 114, 121, 112, 116, 105, 111, 110 >>)
MacKeyOf(S) ==
  KeyOf(S, << 97, 117, 116, 104, 101, 110, 116, 105, 99, 97, 116, 105, 111, 110 >>)

\* data[i] XOR key[i mod |key|] XOR iv[i mod 16], for every i.
XorUnder(data, key, iv) ==
  SubSeq([i \in 1 .. Len(data) |->
            Xor(data[i], Xor(key[((i - 1) % Len(key)) + 1], iv[((i - 1) % 16) + 1]))],
         1, Len(data))

KeyUnder(alg, S, label) == Digest(alg, BigEndian(S) \o Utf8Encode(label))

\* C21: the keys and the tag of every message are computed with the hash H of
\* the parameters of the session whose S the layer is given: encKey and macKey
\* are digests of that hash, of its length, and the tag is the first 16 bytes
\* of that hash over macKey || iv || c.
C21_HashOfSession ==
  layer.on =>
    \A m \in {wire, call.msg} \ {NoWire} :
      LET H == layer.parameters.H
          encKey == KeyUnder(H, m.S, << 101, 110, 99, 114, 121, 112, 116, 105, 111, 110 >>)
          macKey == KeyUnder(H, m.S, << 97, 117, 116, 104, 101, 110, 116, 105, 99, 97,
                                        116, 105, 111, 110 >>)
          n == Len(m.ciphertext) - TagLen
          c == SubSeq(m.ciphertext, 1, n)
      IN  /\ Len(encKey) = HashLen(H) /\ Len(macKey) = HashLen(H)
          /\ deriveKeys(m.S) = [encKey |-> encKey, macKey |-> macKey]
          /\ c = XorUnder(PlaintextBytes(m.data), encKey, m.iv)
          /\ SubSeq(m.ciphertext, n + 1, n + TagLen)
               = SubSeq(Digest(H, macKey \o m.iv \o c), 1, TagLen)

(***************************************************************************)
(* Properties of a session after an error, and of the client's S.          *)
(***************************************************************************)
HandshakeSteps == {"step1", "step2", "step3"}

\* The call this step made is a handshake step on the session the last call
\* was a handshake step on: the client's session, the server's S0, or S1 for
\* the same A.
SameSessionStep ==
  /\ call' # call
  /\ call.op \in HandshakeSteps /\ call'.op \in HandshakeSteps
  /\ call'.by = call.by
  /\ call.by = "server" /\ call.op = "step2" => call'.op = "step2" /\ call'.A = call.A

C23_ClientSAfterC3 ==
  call.by = "client" /\ call.op \in {"encrypt"} \cup DecryptOps /\ call.err = NoError
    => client.stage = "C3"

(***************************************************************************)
(* Properties of xorCrypt and of the tag.                                  *)
(***************************************************************************)
\* a XOR b of two bytes, bit by bit.
ByteXor(a, b) == XorBits(a, b, 8)

\* C24: for every data d, non-empty key k and 16-byte iv, xorCrypt(d, k, iv)
\* returns an array as long as d whose byte i is d[i] XOR k[i mod |k|] XOR
\* iv[i mod 16], for every i, and leaves d, k and iv as they were.
C24_XorCrypt ==
  call.op = "xorCrypt" /\ Len(call.key) > 0 /\ Len(call.iv) = 16 =>
    /\ Len(call.res) = Len(call.data)
    /\ \A i \in 0 .. (Len(call.data) - 1) :
         call.res[i + 1] = ByteXor(ByteXor(call.data[i + 1],
                                           call.key[(i % Len(call.key)) + 1]),
                                   call.iv[(i % 16) + 1])
    /\ call.after = [data |-> call.data, key |-> call.key, iv |-> call.iv]

\* xorCrypt of 33 bytes under a key of 20: byte 20 is under k[0] and iv[4],
\* byte 32 under k[12] and iv[0].
C24_Witness ==
  /\ call.op = "xorCrypt"
  /\ Len(call.data) = 33 /\ Len(call.key) = 20 /\ Len(call.res) = 33
  /\ call.res[21] = ByteXor(ByteXor(call.data[21], call.key[1]), call.iv[5])
  /\ call.res[33] = ByteXor(ByteXor(call.data[33], call.key[13]), call.iv[1])
  /\ call.res # call.data

\* The first 16 bytes of H(macKey || iv || c), macKey the MAC key of S and H
\* the hash of the layer.
TagOver(S, iv, c) ==
  SubSeq(Digest(DefaultParameters.H, MacKeyOf(S) \o iv \o c), 1, 16)

\* The data part and the tag part of a ciphertext field of at least 16 bytes.
DataPart(ciphertext) == SubSeq(ciphertext, 1, Len(ciphertext) - 16)
TagPart(ciphertext) == SubSeq(ciphertext, Len(ciphertext) - 15, Len(ciphertext))

\* C25: in every output of encrypt(S, m) the last 16 bytes of the ciphertext
\* field are the first 16 bytes of H(macKey || iv || c), c the len(m) bytes
\* before them and iv the returned IV; decrypt recomputes the tag over the same
\* three inputs in the same order, and accepts exactly when the last 16 bytes
\* it was handed equal it.
C25_TagOverIVAndData ==
  /\ \A m \in {wire, call.msg} \ {NoWire} :
       /\ Len(DataPart(m.ciphertext)) = Len(PlaintextBytes(m.data))
       /\ TagPart(m.ciphertext) = TagOver(m.S, m.iv, DataPart(m.ciphertext))
  /\ Decrypted /\ Len(call.ciphertext) >= 16 =>
       /\ call.err.kind \in {"none", "auth-tag-mismatch"}
       /\ call.err = NoError
            <=> TagPart(call.ciphertext)
                  = TagOver(layer.S, call.iv, DataPart(call.ciphertext))

\* decrypt accepted the 17 + 16 bytes encrypt returned, after a tampered pair
\* was refused; the tag is not the tag of the data with one bit flipped.
C25_Witness ==
  /\ Decrypted /\ call.how.kind = "again" /\ call.how.after = "auth-tag-mismatch"
  /\ call.err = NoError /\ Len(call.ciphertext) = 33
  /\ TagPart(call.ciphertext) = TagOver(layer.S, call.iv, DataPart(call.ciphertext))
  /\ TagPart(call.ciphertext)
       # TagOver(layer.S, call.iv, FlipBit(DataPart(call.ciphertext), 1, 0))

\* C26: in decrypt the tag comparison examines all 16 byte positions for every
\* input of at least 16 bytes, wherever the first differing byte is, and the
\* XOR decryption runs only after all 16 bytes matched: on a mismatch decrypt
\* raises auth-tag-mismatch with no plaintext computed or returned.
C26_WholeTagCompared ==
  Decrypted /\ Len(call.ciphertext) >= 16 =>
    LET matches == TagPart(call.ciphertext)
                     = TagOver(layer.S, call.iv, DataPart(call.ciphertext))
    IN  /\ call.steps.examined = << 0, 1, 2, 3, 4, 5, 6, 7, 8, 9, 10, 11, 12, 13, 14, 15 >>
        /\ matches =>
             /\ call.err = NoError
             /\ call.steps.ops = << "deriveKeys", "computeMAC", "compare", "xorCrypt" >>
        /\ ~matches =>
             /\ call.err.kind = "auth-tag-mismatch" /\ call.res = << >>
             /\ call.steps.ops = << "deriveKeys", "computeMAC", "compare" >>

\* decrypt was handed a pair whose tag differs in its first byte: the loop went
\* through all 16 positions and decrypt raised without decrypting.
C26_Witness ==
  /\ Decrypted /\ call.how.kind = "flip-ct"
  /\ call.how.pos = Len(call.ciphertext) - 15
  /\ call.ciphertext[call.how.pos] # call.msg.ciphertext[call.how.pos]
  /\ call.err.kind = "auth-tag-mismatch"
  /\ Len(call.steps.examined) = 16
  /\ call.steps.ops = << "deriveKeys", "computeMAC", "compare" >>

(***************************************************************************)
(* Properties of two messages under one iv.                                *)
(***************************************************************************)
\* Two messages encrypt returned on the session, in flight together.
TwoMessages ==
  /\ layer.on /\ call.by = "layer" /\ call.op = "encrypt"
  /\ wire # NoWire /\ call.msg # NoWire

Min(a, b) == IF a < b THEN a ELSE b

\* C27: for the same S and the same iv, the data parts c1 and c2 of the
\* ciphertexts of two plaintexts m1 and m2 satisfy c1[i] XOR c2[i] = m1[i] XOR
\* m2[i] for every i below min(len(m1), len(m2)): byte i of the keystream is
\* the same for both, whatever the plaintexts and their lengths are.
C27_SameIVRevealsXor ==
  TwoMessages /\ wire.S = call.msg.S /\ wire.iv = call.msg.iv =>
    LET m1 == PlaintextBytes(wire.data)
        m2 == PlaintextBytes(call.msg.data)
        c1 == DataPart(wire.ciphertext)
        c2 == DataPart(call.msg.ciphertext)
    IN  \A i \in 1 .. Min(Len(m1), Len(m2)) :
          /\ ByteXor(c1[i], c2[i]) = ByteXor(m1[i], m2[i])
          /\ ByteXor(c1[i], m1[i]) = ByteXor(c2[i], m2[i])

\* Two messages of 17 and of 65 bytes went out under one iv: the XOR of their
\* first 17 encrypted bytes is the XOR of their plaintexts, which differ.
C27_Witness ==
  /\ TwoMessages /\ wire.iv = call.msg.iv
  /\ wire.data = [type |-> "bytes", val |-> BytesOf(17)]
  /\ call.msg.data = [type |-> "bytes", val |-> BytesOf(65)]
  /\ ByteXor(wire.ciphertext[17], call.msg.ciphertext[17])
       = ByteXor(BytesOf(17)[17], BytesOf(65)[17])
  /\ BytesOf(17)[17] # BytesOf(65)[17]

(***************************************************************************)
(* Properties of the byte conversions.                                     *)
(***************************************************************************)
\* The value of a byte sequence read big-endian: the sum of bytes[i] * 256^(L - i).
RECURSIVE ValueOf(_, _)
ValueOf(bytes, i) ==
  IF i > Len(bytes) THEN 0
  ELSE bytes[i] * Power(256, Len(bytes) - i) + ValueOf(bytes, i + 1)

\* C28: for every n >= 0, bigIntToArrayBuffer(n) is the big-endian encoding of
\* n of minimum length, with no leading zero byte when n > 0 and the single
\* byte 0 when n = 0, and arrayBufferToBigInt of it is n.
C28_BigIntRoundTrip ==
  call.op = "bigIntToArrayBuffer" /\ call.n >= 0 =>
    /\ Len(call.bytes) >= 1
    /\ \A i \in 1 .. Len(call.bytes) : call.bytes[i] \in Byte
    /\ ValueOf(call.bytes, 1) = call.n
    /\ call.n > 0 => call.bytes[1] # 0
    /\ call.n = 0 => call.bytes = << 0 >>
    /\ call.bytes = BigEndian(call.n)
    /\ call.back = call.n

\* 4095, three hex digits, became the two bytes 0f ff and came back as 4095.
C28_Witness ==
  /\ call.op = "bigIntToArrayBuffer"
  /\ call.n = 4095 /\ call.bytes = << 15, 255 >> /\ call.back = 4095

\* chunk behind L - |chunk| zero bytes, for a chunk of at most L bytes.
LeftPadded(chunk, L) ==
  SubSeq([i \in 1 .. L |-> IF i <= L - Len(chunk) THEN 0 ELSE chunk[i - (L - Len(chunk))]],
         1, L)

\* padded is of length L, ends with the bytes of chunk and has its value.
PaddedTo(padded, chunk, L) ==
  /\ Len(padded) = L
  /\ Len(chunk) <= L
  /\ SubSeq(padded, L - Len(chunk) + 1, L) = chunk
  /\ \A i \in 1 .. (L - Len(chunk)) : padded[i] = 0
  /\ ValueOf(padded, 1) = ValueOf(chunk, 1)

HashPaddedCalled == call.op = "hashPadded"

\* C29 as stated: hashPadded is H of the concatenation of the chunks, each
\* left-padded with zero bytes to exactly targetLen bytes: for every chunk,
\* padStartArrayBuffer(chunk, targetLen) is targetLen bytes long, keeps the
\* chunk's bytes at the right end and preserves its big-endian value.
C29_Original ==
  HashPaddedCalled =>
    /\ \A i \in 1 .. Len(call.arrays) :
         PaddedTo(call.padded[i], call.arrays[i], call.targetLen)
    /\ Len(Concat(call.padded)) = Len(call.arrays) * call.targetLen
    /\ call.val = Digest(call.H, Concat(call.padded))

\* C29, amended: a chunk of at most targetLen bytes is left-padded with zero
\* bytes to exactly targetLen bytes, its bytes kept at the right end and its
\* big-endian value preserved; a chunk of more than targetLen bytes is taken
\* as it is; hashPadded is H of the concatenation of the chunks so padded.
C29_HashPadded ==
  HashPaddedCalled =>
    /\ \A i \in 1 .. Len(call.arrays) :
         IF Len(call.arrays[i]) <= call.targetLen
         THEN /\ PaddedTo(call.padded[i], call.arrays[i], call.targetLen)
              /\ call.padded[i] = LeftPadded(call.arrays[i], call.targetLen)
         ELSE call.padded[i] = call.arrays[i]
    /\ call.val = Digest(call.H, Concat(call.padded))
    /\ Len(call.val) = HashLen(call.H)

\* hashPadded to 3 bytes of a chunk of two bytes and a chunk of four: the first
\* was padded with one zero byte, the second went into the digest as it was.
C29_Witness ==
  /\ HashPaddedCalled /\ call.targetLen = 3
  /\ call.arrays = << << 1, 2 >>, << 1, 2, 3, 4 >> >>
  /\ call.padded = << << 0, 1, 2 >>, << 1, 2, 3, 4 >> >>
  /\ call.val = Digest(call.H, << 0, 1, 2, 1, 2, 3, 4 >>)

(***************************************************************************)
(* Properties of what decrypt accepts.                                     *)
(***************************************************************************)
\* C30: decrypt(S, iv', ct') returns a plaintext only if (iv', ct') is byte for
\* byte a pair (iv, ciphertext) that encrypt produced under the same S: a pair
\* whose bytes were moved across the boundary between iv and ciphertext, its
\* iv not 16 bytes long, is rejected.
C30_OnlyEncryptedPairsAccepted ==
  Decrypted /\ call.err = NoError =>
    /\ Len(call.iv) = 16
    /\ call.msg.S = layer.S
    /\ call.iv = call.msg.iv /\ call.ciphertext = call.msg.ciphertext
====
